---- MODULE Spec2Model ----
(***************************************************************************)
(* Model of agent/api.py of the agentic RAG service: the three chat        *)
(* endpoints (/chat, /chat/stream, /v1/chat/completions), the helpers they  *)
(* share (get_or_create_session, get_conversation_context,                  *)
(* extract_tool_calls, save_conversation_turn, execute_agent) and the two   *)
(* streaming generators.  Texts are sequences of tokens, so concatenation   *)
(* of texts is \o.  Every await of the handlers is one step of a run.       *)
(***************************************************************************)
EXTENDS Integers, Sequences, FiniteSets, TLC

(* ---------------------------------------------------------------- bounds *)
\* number of request slots (runs that may exist side by side)
MaxRuns == 2
\* a request is admitted while the store holds fewer sessions than this
MaxSessions == 2
\* a request is admitted while the store holds fewer messages than this
MaxStored == 2
\* number of events one agent run may produce
MaxEvents == 3
\* number of events of an agent run while requests run concurrently
MaxConcEvents == 1
\* number of messages of a trace handed to extract_tool_calls directly
MaxTraceMessages == 2
\* number of parts of all messages of such a trace together
MaxTraceParts == 4
\* number of hits one retrieval source hands to the fuser
MaxHits == 2
\* number of stored messages of the session whose context is read directly
MaxHistory == 11
\* number of words of a content whose usage estimate is computed
MaxWords == 40

Runs == 1..MaxRuns

(* ------------------------------------------------------ program constants *)
\* request.session_id absent (None)
NoSessionId == 0
\* mutant: the store hands out the supplied id to the next session it creates
StaleSessionIdsReissued == {1}
\* supplied session ids that never resolve
StaleSessionIds == {-1}
\* max_messages default of get_conversation_context
DefaultMaxMessages == 10
\* context[-6:] - the part of the context that enters the prompt
PromptWindow == 6
\* status codes of the responses; a direct call of execute_agent has none
StatusOK == "200"
StatusBadRequest == "400"
StatusNotFound == "404"
StatusServerError == "500"
NoStatus == "none"
ClientErrorStatuses == {"400", "404", "422"}
ServerErrorStatuses == {"500"}

(* ------------------------------------------------------------- exceptions *)
\* str(e) of the exceptions the reasoning call or a retrieval tool raise
UpstreamErrors == {"upstream error", "insufficient_quota"}
ToolErrors == {"tool error"}
AgentErrors == UpstreamErrors \cup ToolErrors
\* str(e) of the exceptions the session operations of the store raise
StoreErrors == {"db error", "db error 429"}
\* str(e) of the exceptions the message operations of the store raise
MessageErrors == {"db error"}
\* str(e) of a failing json.dumps of the tools record
JsonErrors == {"not JSON serializable"}
\* str(e) of HTTPException(400, "No user message found in request")
NoUserMessageError == "400: No user message found in request"
NoError == "none"

\* "insufficient_quota" in error_message or "429" in error_message
HasQuotaMarker(e) == e \in {"insufficient_quota", "db error 429"}

CooldownMessage == <<"I'm currently experiencing high demand and cannot process your request. Please try again in a few minutes, or contact the administrator about API quota limits.">>
ErrorResponseText(e) == <<"I encountered an error while processing your request: ", e>>
TechnicalDifficulties(e) == <<"I'm experiencing technical difficulties: ", e>>
StreamErrorText(e) == <<"Stream error: ", e>>
OpenAIErrorText(e) == <<"Error: ", e>>

(* ----------------------------------------------------------------- inputs *)
\* ChatRequest.message
ChatMessages == {<<"q">>}
\* OpenAIChatRequest.messages
OpenAIMessageLists ==
  { <<>>,
    << [role |-> "system", content |-> <<"s">>] >>,
    << [role |-> "user", content |-> <<"p">>],
       [role |-> "assistant", content |-> <<"x">>],
       [role |-> "user", content |-> <<"q">>],
       [role |-> "system", content |-> <<"s">>] >> }

\* the tool-call parts an agent run may contain
\* a part of a message of the trace.  part_kind is the class of the part; an
\* attribute the part does not have (or that is None) is Absent.  args is the
\* form of part.args: a JSON string holding an object, a JSON string holding
\* a list, a string that is no JSON, or a dict.  as_dict tells whether the part
\* has the method args_as_dict and whether calling it returns or raises.
Absent == "absent"
Part(part_kind, tool_name, args, as_dict, tool_call_id) ==
  [part_kind |-> part_kind, tool_name |-> tool_name, args |-> args,
   as_dict |-> as_dict, tool_call_id |-> tool_call_id]
NoTool == Part("none", "none", "none", "none", "none")
TextPart == Part("TextPart", Absent, Absent, Absent, Absent)
UserPromptPart == Part("UserPromptPart", Absent, Absent, Absent, Absent)
ToolReturnPart == Part("ToolReturnPart", "vector_search", Absent, Absent, "call_1")
GoodPart == Part("ToolCallPart", "vector_search", "json_object", "returns", "call_1")
BadJsonPart == Part("ToolCallPart", "graph_search", "json_invalid", "raises", "call_2")
ListJsonPart == Part("ToolCallPart", "hybrid_search", "json_list", "raises", "call_3")
NamelessPart == Part("ToolCallPart", Absent, "dict", Absent, "call_4")
NoIdPart == Part("ToolCallPart", "list_documents", "json_object", Absent, Absent)
\* the tool-call parts the agent runs of the endpoints contain
ToolParts == { GoodPart, NoIdPart }
\* the parts of the traces handed to extract_tool_calls directly
PartSet == {TextPart, GoodPart, BadJsonPart, ListJsonPart, NamelessPart, NoIdPart}

\* the events of one agent run: PartStartEvent of a text part, PartDeltaEvent
\* with a TextPartDelta, and a tool-call part (tool then invoked)
TextStart(c) == [kind |-> "text_start", content |-> c, tool |-> NoTool]
TextDelta(c) == [kind |-> "text_delta", content |-> c, tool |-> NoTool]
ToolCallEvent(p) == [kind |-> "tool_call", content |-> <<>>, tool |-> p]
StartFrags == {<<>>, <<"a">>}
DeltaFrags == {<<"b">>}
AgentEventSet ==
  {TextStart(c) : c \in StartFrags} \cup {TextDelta(c) : c \in DeltaFrags}
    \cup {ToolCallEvent(p) : p \in ToolParts}

IsText(ev) == ev.kind \in {"text_start", "text_delta"}

\* ev may follow the events es of a run: a delta continues a text part, and a
\* tool call leaves room for the model response that follows it
CanFollow(es, ev) ==
  /\ Len(es) < MaxEvents
  /\ ev.kind = "text_delta" => (es # <<>> /\ IsText(es[Len(es)]))
  /\ ev.kind = "tool_call" => Len(es) < MaxEvents - 1

\* the agent run may end after es: the last model response is a text
CanEnd(es) == es # <<>> /\ IsText(es[Len(es)])

RECURSIVE ValidScript(_)
ValidScript(es) ==
  IF es = <<>> THEN TRUE
  ELSE /\ ValidScript(SubSeq(es, 1, Len(es) - 1))
       /\ CanFollow(SubSeq(es, 1, Len(es) - 1), es[Len(es)])

AgentScripts ==
  { es \in UNION {[1..n -> AgentEventSet] : n \in 1..MaxEvents} :
      ValidScript(es) /\ CanEnd(es) }

(* ---------------------------------------------------------- pure helpers *)
\* mutant: the role filter is missing
UserMessagesAnyRole(messages) == messages
\* convert_openai_to_internal: the user-role messages of the request
UserMessages(messages) == SelectSeq(messages, LAMBDA m : m.role = "user")
\* convert_openai_to_internal: the content of the latest user-role message
\* mutant: the first user-role message is taken
LatestUserMessageFirst(messages) == UserMessages(messages)[1].content
LatestUserMessage(messages) ==
  UserMessages(messages)[Len(UserMessages(messages))].content

\* db_utils.get_session_messages: the most recent `limit` messages of the
\* session, oldest first
get_session_messages(st, session_id, limit) ==
  LET msgs == st[session_id]
  IN  IF Len(msgs) <= limit THEN msgs
      ELSE SubSeq(msgs, Len(msgs) - limit + 1, Len(msgs))

\* mutant: the whole session is fetched, whatever max_messages is
get_conversation_context_unbounded(st, session_id, max_messages) ==
  [i \in 1..Len(st[session_id]) |->
     [role |-> st[session_id][i].role, content |-> st[session_id][i].content]]
\* get_conversation_context: the {role, content} projection of the messages
get_conversation_context(st, session_id, max_messages) ==
  LET messages == get_session_messages(st, session_id, max_messages)
  IN  [i \in 1..Len(messages) |->
         [role |-> messages[i].role, content |-> messages[i].content]]

\* mutant: the whole context enters the prompt
LastOfWhole(context, n) == context
\* context[-6:]
LastOf(context, n) ==
  IF Len(context) <= n THEN context
  ELSE SubSeq(context, Len(context) - n + 1, Len(context))

\* "\n".join(f"{msg['role']}: {msg['content']}" for msg in msgs)
RECURSIVE JoinLines(_)
JoinLines(msgs) ==
  IF msgs = <<>> THEN <<>>
  ELSE LET line == <<msgs[1].role, ": ">> \o msgs[1].content
       IN  IF Len(msgs) = 1 THEN line
           ELSE line \o <<"\n">> \o JoinLines(Tail(msgs))

\* mutant: the header and the label are written for an empty context too
BuildPromptAlways(context, message) ==
  <<"Previous conversation:\n">> \o JoinLines(LastOf(context, PromptWindow))
    \o <<"\n\nCurrent question: ">> \o message
\* the working prompt built from the context and the new message
BuildPrompt(context, message) ==
  IF context # <<>>
  THEN <<"Previous conversation:\n">> \o JoinLines(LastOf(context, PromptWindow))
         \o <<"\n\nCurrent question: ">> \o message
  ELSE message

\* ToolCall(tool_name, args, tool_call_id) built from one tool-call part
\* a message of the trace; has_parts: hasattr(message, 'parts')
TraceMessage(has_parts, parts) == [has_parts |-> has_parts, parts |-> parts]

\* json.loads(part.args): the decoded value, a mapping or a list, or
\* JSONDecodeError
json_loads(args) ==
  CASE args = "json_object" -> [ok |-> TRUE, value |-> "mapping"]
    [] args = "json_list" -> [ok |-> TRUE, value |-> "list"]
    [] OTHER -> [ok |-> FALSE, value |-> "JSONDecodeError"]

\* mutant: the tool name is read without the hasattr guard
ToolNameOfUnguarded(part) == part.tool_name
\* tool_name = str(part.tool_name) if hasattr(part, 'tool_name') else 'unknown'
ToolNameOf(part) == IF part.tool_name = Absent THEN "unknown" ELSE part.tool_name

\* tool_args after the isinstance branches: {} unless part.args is a JSON
\* string that decodes or a dict
ParsedArgs(part) ==
  CASE part.args \in {"json_object", "json_list", "json_invalid"} ->
         IF json_loads(part.args).ok THEN json_loads(part.args).value ELSE "empty"
    [] part.args = "dict" -> "mapping"
    [] OTHER -> "empty"

\* tool_args after the args_as_dict alternative: its result when the method
\* exists and returns, else what the branches above left
ToolArgsOf(part) ==
  IF part.as_dict = "returns" THEN "mapping" ELSE ParsedArgs(part)

\* tool_call_id = str(part.tool_call_id) if part.tool_call_id else None
ToolCallIdOf(part) ==
  IF part.tool_call_id = Absent THEN "null" ELSE part.tool_call_id

\* ToolCall(**tool_call_data) raises ValidationError unless args is a mapping
ToolCallValid(data) == data.args \in {"mapping", "empty"}

\* tool_call_data of a tool-call part
ToolCallOf(part) ==
  [tool_name |-> ToolNameOf(part), args |-> ToolArgsOf(part),
   tool_call_id |-> ToolCallIdOf(part)]

\* mutant: a part whose record cannot be built ends the extraction
RECURSIVE ToolCallsOfPartsAbort(_)
ToolCallsOfPartsAbort(parts) ==
  IF parts = <<>> THEN <<>>
  ELSE IF parts[1].part_kind = "ToolCallPart"
       THEN IF ToolCallValid(ToolCallOf(parts[1]))
            THEN <<ToolCallOf(parts[1])>> \o ToolCallsOfPartsAbort(Tail(parts))
            ELSE <<>>
       ELSE ToolCallsOfPartsAbort(Tail(parts))

\* for part in message.parts: a ToolCallPart appends its record, and the part
\* is skipped (continue) when building the record raises
RECURSIVE ToolCallsOfParts(_)
ToolCallsOfParts(parts) ==
  IF parts = <<>> THEN <<>>
  ELSE IF parts[1].part_kind = "ToolCallPart"
       THEN IF ToolCallValid(ToolCallOf(parts[1]))
            THEN <<ToolCallOf(parts[1])>> \o ToolCallsOfParts(Tail(parts))
            ELSE ToolCallsOfParts(Tail(parts))
       ELSE ToolCallsOfParts(Tail(parts))

\* for message in messages: the parts of the messages that have parts
RECURSIVE ToolCallsOfMessages(_)
ToolCallsOfMessages(messages) ==
  IF messages = <<>> THEN <<>>
  ELSE (IF messages[1].has_parts THEN ToolCallsOfParts(messages[1].parts) ELSE <<>>)
       \o ToolCallsOfMessages(Tail(messages))

\* the model responses of a run with the events es, cur being the parts of
\* the response under construction: a delta adds no part, and text after a
\* tool call starts the response that follows the tool return
RECURSIVE ResponsesOf(_, _)
ResponsesOf(es, cur) ==
  IF es = <<>>
  THEN IF cur = <<>> THEN <<>> ELSE <<TraceMessage(TRUE, cur)>>
  ELSE IF es[1].kind = "text_delta" THEN ResponsesOf(Tail(es), cur)
  ELSE IF es[1].kind = "tool_call" THEN ResponsesOf(Tail(es), Append(cur, es[1].tool))
  ELSE IF cur # <<>> /\ cur[Len(cur)].part_kind = "ToolCallPart"
       THEN <<TraceMessage(TRUE, cur), TraceMessage(TRUE, <<ToolReturnPart>>)>>
              \o ResponsesOf(Tail(es), <<TextPart>>)
       ELSE ResponsesOf(Tail(es), Append(cur, TextPart))

\* result.all_messages() of the run with the events es: the request, then the
\* responses and tool returns
all_messages(es) == <<TraceMessage(TRUE, <<UserPromptPart>>)>> \o ResponsesOf(es, <<>>)

\* extract_tool_calls(result) for the result of the run with the events es
extract_tool_calls(es) == ToolCallsOfMessages(all_messages(es))

\* the concatenation of the contents of the text events of es
RECURSIVE TextOf(_)
TextOf(es) ==
  IF es = <<>> THEN <<>>
  ELSE (IF IsText(es[1]) THEN es[1].content ELSE <<>>) \o TextOf(Tail(es))

\* index of the last tool-call event of es, 0 when there is none
RECURSIVE LastToolIndex(_)
LastToolIndex(es) ==
  IF es = <<>> THEN 0
  ELSE IF es[Len(es)].kind = "tool_call" THEN Len(es)
       ELSE LastToolIndex(SubSeq(es, 1, Len(es) - 1))

\* result.data of rag_agent.run: the text of the final model response
ResultData(es) == TextOf(SubSeq(es, LastToolIndex(es) + 1, Len(es)))

\* message metadata; absent keys are "none" / -1 / FALSE
Meta(error, streamed, tool_calls) ==
  [error |-> error, streamed |-> streamed, tool_calls |-> tool_calls]
NoToolCount == 0 - 1

Message(role, content, metadata) ==
  [role |-> role, content |-> content, metadata |-> metadata]

(* ------------------------------------------------------------- responses *)
NoRequest ==
  [endpoint |-> "none", stream |-> FALSE, session_id |-> NoSessionId,
   message |-> <<>>, messages |-> <<>>, save_conversation |-> FALSE]

\* usage=None, and the usage of a response that has no such field
NoUsage == [present |-> FALSE, prompt_tokens |-> 0, completion_tokens |-> 0,
            total_tokens |-> 0]
\* len(content.split()): the tokens of a text are its words
WordCount(content) == Len(content)
\* prompt_tokens=50
PromptTokens == 50
\* int(len(content.split()) * 1.3)
CompletionTokens(words) == (words * 13) \div 10
\* mutant: the total is taken from the rounded-up estimate
TotalTokensRoundedUp(words) == (words * 13 + 9) \div 10 + 50
\* int(estimated_tokens + 50)
TotalTokens(words) == (words * 13 + 500) \div 10
\* OpenAIUsage(...) if not is_stream else None
OpenAIUsage(content, is_stream) ==
  IF is_stream THEN NoUsage
  ELSE [present |-> TRUE, prompt_tokens |-> PromptTokens,
        completion_tokens |-> CompletionTokens(WordCount(content)),
        total_tokens |-> TotalTokens(WordCount(content))]

HttpResponse(status, kind, content, tools, session_id) ==
  [status |-> status, kind |-> kind, content |-> content,
   tools_used |-> tools, session_id |-> session_id, usage |-> NoUsage]
NoResponse == HttpResponse(NoStatus, "pending", <<>>, <<>>, NoSessionId)

\* create_openai_response(content, session_id, is_stream=False)
create_openai_response(content, session_id) ==
  [HttpResponse(StatusOK, "chat.completion", content, <<>>, session_id)
     EXCEPT !.usage = OpenAIUsage(content, FALSE)]
\* ChatResponse(message, session_id, tools_used)
ChatResponse(message, session_id, tools) ==
  HttpResponse(StatusOK, "chat", message, tools, session_id)
\* StreamingResponse(generator)
StreamingResponse(session_id) ==
  HttpResponse(StatusOK, "stream", <<>>, <<>>, session_id)
\* raise HTTPException(status_code, detail)
HTTPException(status, detail) ==
  HttpResponse(status, "error", <<detail>>, <<>>, NoSessionId)

(* ----------------------------------------------------------- wire records *)
\* the records of the native stream
NativeEvent(type, session_id, content, tools) ==
  [type |-> type, session_id |-> session_id, content |-> content, tools |-> tools]
SessionEvent(session_id) == NativeEvent("session", session_id, <<>>, <<>>)
TextEvent(content) == NativeEvent("text", NoSessionId, content, <<>>)
ToolsEvent(tools) == NativeEvent("tools", NoSessionId, <<>>, tools)
EndEvent == NativeEvent("end", NoSessionId, <<>>, <<>>)
ErrorEvent(e) == NativeEvent("error", NoSessionId, StreamErrorText(e), <<>>)

\* the records of the compatibility stream: OpenAIChatResponse chunks with one
\* choice, and the [DONE] sentinel
OpenAIDelta(has_content, content) == [has_content |-> has_content, content |-> content]
OpenAIChoice(delta, finish_reason) ==
  [index |-> 0, delta |-> delta, finish_reason |-> finish_reason]
Chunk(delta, finish_reason, created) ==
  [object |-> "chat.completion.chunk", created |-> created,
   choices |-> <<OpenAIChoice(delta, finish_reason)>>, usage |-> NoUsage]
\* timestamp = int(time.time()) at the start of the stream: the origin of
\* the clock
StreamStart == 0
\* what int(time.time()) can give when it is read again during the stream:
\* the same second or a later one
ClockReadings == {StreamStart, StreamStart + 1}
TextChunk(content) == Chunk(OpenAIDelta(TRUE, content), "null", StreamStart)
FinalChunk == Chunk(OpenAIDelta(FALSE, <<>>), "stop", StreamStart)
\* mutant: the error chunk is built like a text chunk, finish_reason None
ErrorChunkNoFinish(e, now) == Chunk(OpenAIDelta(TRUE, OpenAIErrorText(e)), "null", now)
\* the chunk of the except block: created=int(time.time())
ErrorChunk(e, now) == Chunk(OpenAIDelta(TRUE, OpenAIErrorText(e)), "stop", now)
DoneRecord == [object |-> "[DONE]", choices |-> <<>>]

(* ------------------------------------------------------------------ state *)
VARIABLES
  store,   \* the ConversationStore: store[id] is the message list of session id
  run,     \* run[r]: the state of the request handled in slot r
  call     \* a direct call of one of the pure helpers: its arguments and its result

vars == <<store, run, call>>

IdleRun ==
  [pc |-> "idle", req |-> NoRequest, session_id |-> NoSessionId,
   context |-> <<>>, full_prompt |-> <<>>, events |-> <<>>,
   full_response |-> <<>>, response |-> <<>>, tools_used |-> <<>>,
   exc |-> NoError, out |-> <<>>, resp |-> NoResponse,
   writes |-> <<>>, faults |-> {}, created |-> {}, loop_done |-> FALSE]

\* a call of extract_tool_calls: messages is the trace of the result; raises
\* tells whether reading it raises (result.all_messages(), or the iteration
\* over a message), and readable is the number of messages iterated before
\* that
ToolsCall(pc, raises, readable, messages, tools_used) ==
  [pc |-> pc, raises |-> raises, readable |-> readable, messages |-> messages,
   tools_used |-> tools_used]
NoCall == ToolsCall("none", FALSE, 0, <<>>, <<>>)

Init ==
  /\ store = <<>>
  /\ run = [r \in Runs |-> IdleRun]
  /\ call = NoCall

Sessions == DOMAIN store

RECURSIVE TotalMessages(_)
TotalMessages(st) ==
  IF st = <<>> THEN 0 ELSE Len(st[1]) + TotalMessages(Tail(st))

\* the store has room for the sessions and messages of one more request
Admitted == Len(store) < MaxSessions /\ TotalMessages(store) < MaxStored

\* db_utils.get_session: the session record of session_id, or None
NoSession == [id |-> NoSessionId]
get_session(st, session_id) ==
  IF session_id \in DOMAIN st THEN [id |-> session_id] ELSE NoSession

\* GET /sessions/{session_id} once get_session returned: 404 when there is
\* no such session, else the session
get_session_info(st, session_id) ==
  IF get_session(st, session_id) = NoSession
  THEN HTTPException(StatusNotFound, "Session not found")
  ELSE HttpResponse(StatusOK, "session", <<>>, <<>>, session_id)

\* mutant: the sequence number is the count of the messages already stored
StoredAtCount(st, session_id, msg) ==
  [role |-> msg.role, content |-> msg.content, metadata |-> msg.metadata,
   sequence_no |-> Len(st[session_id])]
\* the message as the store keeps it: with the next sequence number of its
\* session
Stored(st, session_id, msg) ==
  [role |-> msg.role, content |-> msg.content, metadata |-> msg.metadata,
   sequence_no |-> Len(st[session_id]) + 1]

\* db_utils.add_message: append the message to the session
add_message(st, session_id, msg) ==
  [st EXCEPT ![session_id] = Append(@, Stored(st, session_id, msg))]

\* the run rr after it raised e at step `label`
Fault(rr, label) == [rr EXCEPT !.faults = @ \cup {label}]

\* the run rr after it appended msg to its session
Wrote(rr, msg) ==
  [rr EXCEPT !.writes = Append(@, [session_id |-> rr.session_id,
                                   msg |-> Stored(store, rr.session_id, msg)])]

Finish(rr, resp) == [rr EXCEPT !.pc = "done", !.resp = resp]

(* ------------------------------------------------ endpoint except blocks *)
\* chat / chat_stream: except Exception -> HTTPException(500)
ChatExcept(e) == HTTPException(StatusServerError, e)

\* chat_completions: the outer except block
ChatCompletionsExcept(e, session_id) ==
  IF HasQuotaMarker(e)
  THEN create_openai_response(CooldownMessage, session_id)
  ELSE HTTPException(StatusServerError, e)

\* an exception e that reaches the handler of the endpoint of rr
EndpointExcept(rr, e) ==
  CASE rr.req.endpoint = "chat_completions" ->
         Finish(rr, ChatCompletionsExcept(e, rr.session_id))
    [] rr.req.endpoint \in {"chat", "chat_stream"} -> Finish(rr, ChatExcept(e))
    [] OTHER -> Finish(rr, HttpResponse(NoStatus, "raise", <<e>>, <<>>, NoSessionId))

(* ------------------------------------------------------- request arrival *)
SessionIdInputs == {NoSessionId} \cup StaleSessionIds \cup Sessions

\* POST /chat
StartChat(r) ==
  /\ run[r].pc = "idle" /\ Admitted
  /\ \E m \in ChatMessages, sid \in SessionIdInputs :
       run' = [run EXCEPT ![r] =
                 [IdleRun EXCEPT
                    !.pc = IF sid # NoSessionId THEN "gs_lookup" ELSE "gs_create",
                    !.req = [endpoint |-> "chat", stream |-> FALSE, session_id |-> sid,
                             message |-> m, messages |-> <<>>,
                             save_conversation |-> TRUE]]]
  /\ UNCHANGED <<store, call>>

\* POST /chat/stream
StartChatStream(r) ==
  /\ run[r].pc = "idle" /\ Admitted
  /\ \E m \in ChatMessages, sid \in SessionIdInputs :
       run' = [run EXCEPT ![r] =
                 [IdleRun EXCEPT
                    !.pc = IF sid # NoSessionId THEN "gs_lookup" ELSE "gs_create",
                    !.req = [endpoint |-> "chat_stream", stream |-> TRUE, session_id |-> sid,
                             message |-> m, messages |-> <<>>,
                             save_conversation |-> TRUE]]]
  /\ UNCHANGED <<store, call>>

\* POST /v1/chat/completions up to its first await: convert_openai_to_internal
\* raises HTTPException(400) when there is no user message, and the outer
\* except block of the endpoint catches it
StartChatCompletions(r) ==
  /\ run[r].pc = "idle" /\ Admitted
  /\ \E msgs \in OpenAIMessageLists, stream \in BOOLEAN :
       LET rq == [endpoint |-> "chat_completions", stream |-> stream,
                  session_id |-> NoSessionId, message |-> <<>>, messages |-> msgs,
                  save_conversation |-> TRUE]
       IN  run' = [run EXCEPT ![r] =
             IF UserMessages(msgs) = <<>>
             THEN EndpointExcept(
                    Fault([IdleRun EXCEPT !.req = rq, !.exc = NoUserMessageError],
                          "validation"),
                    NoUserMessageError)
             ELSE [IdleRun EXCEPT
                     !.pc = "gs_create",
                     !.req = [rq EXCEPT !.message = LatestUserMessage(msgs)]]]
  /\ UNCHANGED <<store, call>>

\* a direct call execute_agent(message, session_id, save_conversation=...)
StartExecuteAgent(r) ==
  /\ run[r].pc = "idle" /\ Admitted
  /\ \E m \in ChatMessages, sid \in Sessions, save \in BOOLEAN :
       run' = [run EXCEPT ![r] =
                 [IdleRun EXCEPT
                    !.pc = "ea_context", !.session_id = sid,
                    !.req = [endpoint |-> "execute_agent", stream |-> FALSE,
                             session_id |-> sid, message |-> m, messages |-> <<>>,
                             save_conversation |-> save]]]
  /\ UNCHANGED <<store, call>>

\* GET /sessions/{session_id}: one await of get_session, whose exception
\* becomes HTTPException(500)
StartGetSessionInfo(r) ==
  /\ run[r].pc = "idle"
  /\ \E sid \in StaleSessionIds \cup Sessions :
       LET rr == [IdleRun EXCEPT
                    !.req = [endpoint |-> "get_session_info", stream |-> FALSE,
                             session_id |-> sid, message |-> <<>>,
                             messages |-> <<>>, save_conversation |-> FALSE]]
       IN  \/ \E e \in StoreErrors :
                run' = [run EXCEPT ![r] =
                          Finish(Fault(rr, "session"),
                                 HTTPException(StatusServerError, e))]
           \/ run' = [run EXCEPT ![r] = Finish(rr, get_session_info(store, sid))]
  /\ UNCHANGED <<store, call>>

(* ------------------------------------------------- get_or_create_session *)
\* where the endpoint of rr continues once its session is resolved
AfterSession(rr) ==
  CASE rr.req.endpoint = "chat" -> [rr EXCEPT !.pc = "ea_context"]
    [] rr.req.endpoint = "chat_stream" ->
         [rr EXCEPT !.pc = "ns_session", !.resp = StreamingResponse(rr.session_id)]
    [] OTHER -> [rr EXCEPT !.pc = "cc_verify"]

\* mutant: a supplied id that does not resolve is answered with 404
GetSessionNotFoundError(r) ==
  LET rr == run[r] IN
  /\ rr.pc = "gs_lookup"
  /\ \/ \E e \in StoreErrors :
          run' = [run EXCEPT ![r] = EndpointExcept(Fault(rr, "session"), e)]
     \/ run' = [run EXCEPT ![r] =
                  IF rr.req.session_id \in Sessions
                  THEN AfterSession([rr EXCEPT !.session_id = rr.req.session_id])
                  ELSE Finish(rr, HTTPException(StatusNotFound, "Session not found"))]
  /\ UNCHANGED <<store, call>>

\* get_or_create_session: await get_session(request.session_id)
GetSession(r) ==
  LET rr == run[r] IN
  /\ rr.pc = "gs_lookup"
  /\ \/ \E e \in StoreErrors :
          run' = [run EXCEPT ![r] = EndpointExcept(Fault(rr, "session"), e)]
     \/ run' = [run EXCEPT ![r] =
                  IF rr.req.session_id \in Sessions
                  THEN AfterSession([rr EXCEPT !.session_id = rr.req.session_id])
                  ELSE [rr EXCEPT !.pc = "gs_create"]]
  /\ UNCHANGED <<store, call>>

\* mutant: create_session hands out the id of the newest existing session
CreateSessionReuse(r) ==
  LET rr == run[r] IN
  /\ rr.pc = "gs_create"
  /\ \/ /\ \E e \in StoreErrors :
            run' = [run EXCEPT ![r] = EndpointExcept(Fault(rr, "session"), e)]
        /\ UNCHANGED store
     \/ /\ store' = IF store = <<>> THEN Append(store, <<>>) ELSE store
        /\ run' = [run EXCEPT ![r] =
                     AfterSession([rr EXCEPT !.session_id = Len(store'),
                                             !.created = @ \cup {Len(store')}])]
  /\ UNCHANGED call

\* get_or_create_session: await create_session(...)
CreateSession(r) ==
  LET rr == run[r] IN
  /\ rr.pc = "gs_create"
  /\ \/ /\ \E e \in StoreErrors :
            run' = [run EXCEPT ![r] = EndpointExcept(Fault(rr, "session"), e)]
        /\ UNCHANGED store
     \/ /\ store' = Append(store, <<>>)
        /\ run' = [run EXCEPT ![r] =
                     AfterSession([rr EXCEPT !.session_id = Len(store) + 1,
                                             !.created = @ \cup {Len(store) + 1}])]
  /\ UNCHANGED call

\* chat_completions: session_check = await get_session(session_id), then the
\* choice between the non-streaming and the streaming branch
VerifySession(r) ==
  LET rr == run[r] IN
  /\ rr.pc = "cc_verify"
  /\ \/ \E e \in StoreErrors :
          run' = [run EXCEPT ![r] = EndpointExcept(Fault(rr, "session"), e)]
     \/ run' = [run EXCEPT ![r] =
                  IF rr.req.stream
                  THEN [rr EXCEPT !.pc = "os_context",
                                  !.resp = StreamingResponse(rr.session_id)]
                  ELSE [rr EXCEPT !.pc = "ea_context"]]
  /\ UNCHANGED <<store, call>>

(* ---------------------------------------------------------- execute_agent *)
\* execute_agent returned (response, tools) to its caller
ExecuteAgentReturn(rr, response, tools) ==
  CASE rr.req.endpoint = "chat" ->
         Finish(rr, ChatResponse(response, rr.session_id, tools))
    [] rr.req.endpoint = "chat_completions" ->
         Finish(rr, create_openai_response(response, rr.session_id))
    [] OTHER -> Finish(rr, HttpResponse(NoStatus, "return", response, tools, rr.session_id))

\* execute_agent raised e to its caller: chat_completions substitutes a
\* message for the answer, chat answers 500
ExecuteAgentRaise(rr, e) ==
  CASE rr.req.endpoint = "chat_completions" ->
         Finish(rr, create_openai_response(TechnicalDifficulties(e), rr.session_id))
    [] OTHER -> EndpointExcept(rr, e)

\* mutant: the except block returns the apology without persisting the turn
ExecuteAgentExceptNoSave(rr, e) ==
  ExecuteAgentReturn([rr EXCEPT !.exc = e], ErrorResponseText(e), <<>>)

\* mutant: the exception is handed on to the caller
ExecuteAgentExceptRaises(rr, e) == ExecuteAgentRaise([rr EXCEPT !.exc = e], e)

\* the except block of execute_agent is entered with e
ExecuteAgentExcept(rr, e) ==
  IF rr.req.save_conversation
  THEN [rr EXCEPT !.pc = "ea_except_user", !.exc = e,
                  !.response = ErrorResponseText(e), !.tools_used = <<>>]
  ELSE ExecuteAgentReturn([rr EXCEPT !.exc = e], ErrorResponseText(e), <<>>)

\* context = await get_conversation_context(session_id); build the prompt
EaContext(r) ==
  LET rr == run[r] IN
  /\ rr.pc = "ea_context"
  /\ \/ \E e \in MessageErrors :
          run' = [run EXCEPT ![r] = ExecuteAgentExcept(Fault(rr, "context"), e)]
     \/ LET context == get_conversation_context(store, rr.session_id, DefaultMaxMessages)
        IN  run' = [run EXCEPT ![r] =
                      [rr EXCEPT !.pc = "ea_run", !.context = context,
                                 !.full_prompt = BuildPrompt(context, rr.req.message)]]
  /\ UNCHANGED <<store, call>>

\* result = await rag_agent.run(full_prompt); response, tools_used
EaRun(r) ==
  LET rr == run[r] IN
  /\ rr.pc = "ea_run"
  /\ \/ \E e \in AgentErrors :
          run' = [run EXCEPT ![r] = ExecuteAgentExcept(Fault(rr, "agent"), e)]
     \/ \E es \in AgentScripts :
          LET done == [rr EXCEPT !.events = es, !.response = ResultData(es),
                                 !.tools_used = extract_tool_calls(es)]
          IN  run' = [run EXCEPT ![r] =
                        IF rr.req.save_conversation
                        THEN [done EXCEPT !.pc = "ea_save_user"]
                        ELSE ExecuteAgentReturn(done, done.response, done.tools_used)]
  /\ UNCHANGED <<store, call>>

\* save_conversation_turn of the try block: the user message
EaSaveUser(r) ==
  LET rr == run[r]
      msg == Message("user", rr.req.message, Meta(NoError, FALSE, Len(rr.tools_used)))
  IN
  /\ rr.pc = "ea_save_user"
  /\ \/ /\ \E e \in MessageErrors :
            run' = [run EXCEPT ![r] = ExecuteAgentExcept(Fault(rr, "user_write"), e)]
        /\ UNCHANGED store
     \/ /\ store' = add_message(store, rr.session_id, msg)
        /\ run' = [run EXCEPT ![r] = [Wrote(rr, msg) EXCEPT !.pc = "ea_save_assistant"]]
  /\ UNCHANGED call

\* save_conversation_turn of the try block: the assistant message; return
EaSaveAssistant(r) ==
  LET rr == run[r]
      msg == Message("assistant", rr.response, Meta(NoError, FALSE, Len(rr.tools_used)))
  IN
  /\ rr.pc = "ea_save_assistant"
  /\ \/ /\ \E e \in MessageErrors :
            run' = [run EXCEPT ![r] = ExecuteAgentExcept(Fault(rr, "assistant_write"), e)]
        /\ UNCHANGED store
     \/ /\ store' = add_message(store, rr.session_id, msg)
        /\ run' = [run EXCEPT ![r] =
                     ExecuteAgentReturn(Wrote(rr, msg), rr.response, rr.tools_used)]
  /\ UNCHANGED call

\* save_conversation_turn of the except block: the user message
EaExceptSaveUser(r) ==
  LET rr == run[r]
      msg == Message("user", rr.req.message, Meta(rr.exc, FALSE, NoToolCount))
  IN
  /\ rr.pc = "ea_except_user"
  /\ \/ /\ \E e \in MessageErrors :
            run' = [run EXCEPT ![r] = ExecuteAgentRaise(Fault(rr, "except_write"), e)]
        /\ UNCHANGED store
     \/ /\ store' = add_message(store, rr.session_id, msg)
        /\ run' = [run EXCEPT ![r] = [Wrote(rr, msg) EXCEPT !.pc = "ea_except_assistant"]]
  /\ UNCHANGED call

\* save_conversation_turn of the except block: the apology; return
EaExceptSaveAssistant(r) ==
  LET rr == run[r]
      msg == Message("assistant", rr.response, Meta(rr.exc, FALSE, NoToolCount))
  IN
  /\ rr.pc = "ea_except_assistant"
  /\ \/ /\ \E e \in MessageErrors :
            run' = [run EXCEPT ![r] = ExecuteAgentRaise(Fault(rr, "except_write"), e)]
        /\ UNCHANGED store
     \/ /\ store' = add_message(store, rr.session_id, msg)
        /\ run' = [run EXCEPT ![r] = ExecuteAgentReturn(Wrote(rr, msg), rr.response, <<>>)]
  /\ UNCHANGED call

(* ------------------------------------------- the agent loop of the streams *)
\* the exceptions the agent loop may raise after the events es: the reasoning
\* call at any point, a retrieval tool once a tool was called
LoopErrors(es) ==
  UpstreamErrors \cup
    (IF es # <<>> /\ es[Len(es)].kind = "tool_call" THEN ToolErrors ELSE {})

Emit(rr, rec) == [rr EXCEPT !.out = Append(@, rec)]

(* ------------------------------------------- chat_stream.generate_stream *)
\* yield the session event
NsSession(r) ==
  LET rr == run[r] IN
  /\ rr.pc = "ns_session"
  /\ run' = [run EXCEPT ![r] =
               [Emit(rr, SessionEvent(rr.session_id)) EXCEPT !.pc = "ns_context"]]
  /\ UNCHANGED <<store, call>>

\* mutant: the context of the first session is read, whichever session the
\* run resolved
NsContextAnySession(r) ==
  LET rr == run[r] IN
  /\ rr.pc = "ns_context"
  /\ \/ \E e \in MessageErrors :
          run' = [run EXCEPT ![r] =
                    [Fault(rr, "context") EXCEPT !.pc = "ns_error", !.exc = e]]
     \/ LET context == get_conversation_context(store, 1, DefaultMaxMessages)
        IN  run' = [run EXCEPT ![r] =
                      [rr EXCEPT !.pc = "ns_save_user", !.context = context,
                                 !.full_prompt = BuildPrompt(context, rr.req.message)]]
  /\ UNCHANGED <<store, call>>

\* context = await get_conversation_context(session_id); build the prompt
NsContext(r) ==
  LET rr == run[r] IN
  /\ rr.pc = "ns_context"
  /\ \/ \E e \in MessageErrors :
          run' = [run EXCEPT ![r] =
                    [Fault(rr, "context") EXCEPT !.pc = "ns_error", !.exc = e]]
     \/ LET context == get_conversation_context(store, rr.session_id, DefaultMaxMessages)
        IN  run' = [run EXCEPT ![r] =
                      [rr EXCEPT !.pc = "ns_save_user", !.context = context,
                                 !.full_prompt = BuildPrompt(context, rr.req.message)]]
  /\ UNCHANGED <<store, call>>

\* mutant: a turn holds its session: the user message waits while another
\* run on the same session is between its two writes
NsSaveUserLocked(r) ==
  LET rr == run[r]
      msg == Message("user", rr.req.message, Meta(NoError, FALSE, NoToolCount))
  IN
  /\ rr.pc = "ns_save_user"
  /\ \A q \in Runs \ {r} :
       ~(run[q].session_id = rr.session_id /\ Len(run[q].writes) = 1)
  /\ \/ /\ \E e \in MessageErrors :
            run' = [run EXCEPT ![r] =
                      [Fault(rr, "user_write") EXCEPT !.pc = "ns_error", !.exc = e]]
        /\ UNCHANGED store
     \/ /\ store' = add_message(store, rr.session_id, msg)
        /\ run' = [run EXCEPT ![r] = [Wrote(rr, msg) EXCEPT !.pc = "ns_loop"]]
  /\ UNCHANGED call

\* await add_message(role="user")
NsSaveUser(r) ==
  LET rr == run[r]
      msg == Message("user", rr.req.message, Meta(NoError, FALSE, NoToolCount))
  IN
  /\ rr.pc = "ns_save_user"
  /\ \/ /\ \E e \in MessageErrors :
            run' = [run EXCEPT ![r] =
                      [Fault(rr, "user_write") EXCEPT !.pc = "ns_error", !.exc = e]]
        /\ UNCHANGED store
     \/ /\ store' = add_message(store, rr.session_id, msg)
        /\ run' = [run EXCEPT ![r] = [Wrote(rr, msg) EXCEPT !.pc = "ns_loop"]]
  /\ UNCHANGED call

\* mutant: a tool call yields its tools record at once, inside the loop
NsAgentEventToolsInline(r) ==
  LET rr == run[r] IN
  /\ rr.pc = "ns_loop"
  /\ \E ev \in AgentEventSet :
       /\ CanFollow(rr.events, ev)
       /\ run' = [run EXCEPT ![r] =
            LET seen == [rr EXCEPT !.events = Append(@, ev)]
            IN  IF IsText(ev)
                THEN [Emit(seen, TextEvent(ev.content)) EXCEPT
                        !.full_response = @ \o ev.content]
                ELSE Emit(seen, ToolsEvent(<<ToolCallOf(ev.tool)>>))]
  /\ UNCHANGED <<store, call>>

\* one event of the agent loop: a text event is yielded and appended to
\* full_response, a tool call yields nothing
NsAgentEvent(r) ==
  LET rr == run[r] IN
  /\ rr.pc = "ns_loop"
  /\ \E ev \in AgentEventSet :
       /\ CanFollow(rr.events, ev)
       /\ run' = [run EXCEPT ![r] =
            LET seen == [rr EXCEPT !.events = Append(@, ev)]
            IN  IF IsText(ev)
                THEN [Emit(seen, TextEvent(ev.content)) EXCEPT
                        !.full_response = @ \o ev.content]
                ELSE seen]
  /\ UNCHANGED <<store, call>>

\* mutant: the exception of the agent loop leaves the generator uncaught
NsAgentFailEscapes(r) ==
  LET rr == run[r] IN
  /\ rr.pc = "ns_loop"
  /\ \E e \in LoopErrors(rr.events) :
       run' = [run EXCEPT ![r] =
                 [Fault(rr, "agent") EXCEPT !.pc = "done", !.exc = e]]
  /\ UNCHANGED <<store, call>>

\* the agent loop raises
NsAgentFail(r) ==
  LET rr == run[r] IN
  /\ rr.pc = "ns_loop"
  /\ \E e \in LoopErrors(rr.events) :
       run' = [run EXCEPT ![r] =
                 [Fault(rr, "agent") EXCEPT !.pc = "ns_error", !.exc = e]]
  /\ UNCHANGED <<store, call>>

\* mutant: the tools event is yielded for an empty list too
NsAgentEndAlwaysTools(r) ==
  LET rr == run[r]
      tools == extract_tool_calls(rr.events)
  IN
  /\ rr.pc = "ns_loop"
  /\ CanEnd(rr.events)
  /\ run' = [run EXCEPT ![r] =
               Emit([rr EXCEPT !.pc = "ns_save_assistant",
                               !.tools_used = tools, !.loop_done = TRUE],
                    ToolsEvent(tools))]
  /\ UNCHANGED <<store, call>>

\* the agent loop ends: extract the tool calls and yield the tools event when
\* there are any; json.dumps of the tools record may raise
NsAgentEnd(r) ==
  LET rr == run[r]
      tools == extract_tool_calls(rr.events)
  IN
  /\ rr.pc = "ns_loop"
  /\ CanEnd(rr.events)
  /\ \/ /\ tools # <<>>
        /\ \E e \in JsonErrors :
             run' = [run EXCEPT ![r] =
                       [Fault(rr, "tools") EXCEPT !.pc = "ns_error", !.exc = e,
                                                  !.tools_used = tools]]
     \/ run' = [run EXCEPT ![r] =
                  LET got == [rr EXCEPT !.pc = "ns_save_assistant",
                                        !.tools_used = tools, !.loop_done = TRUE]
                  IN  IF tools # <<>> THEN Emit(got, ToolsEvent(tools)) ELSE got]
  /\ UNCHANGED <<store, call>>

\* await add_message(role="assistant")
NsSaveAssistant(r) ==
  LET rr == run[r]
      msg == Message("assistant", rr.full_response,
                     Meta(NoError, TRUE, Len(rr.tools_used)))
  IN
  /\ rr.pc = "ns_save_assistant"
  /\ \/ /\ \E e \in MessageErrors :
            run' = [run EXCEPT ![r] =
                      [Fault(rr, "assistant_write") EXCEPT !.pc = "ns_error", !.exc = e]]
        /\ UNCHANGED store
     \/ /\ store' = add_message(store, rr.session_id, msg)
        /\ run' = [run EXCEPT ![r] = [Wrote(rr, msg) EXCEPT !.pc = "ns_end"]]
  /\ UNCHANGED call

\* yield the end event
NsEnd(r) ==
  LET rr == run[r] IN
  /\ rr.pc = "ns_end"
  /\ run' = [run EXCEPT ![r] = [Emit(rr, EndEvent) EXCEPT !.pc = "done"]]
  /\ UNCHANGED <<store, call>>

\* mutant: the except block ends the stream without the error event
NsErrorSilent(r) ==
  LET rr == run[r] IN
  /\ rr.pc = "ns_error"
  /\ run' = [run EXCEPT ![r] = [rr EXCEPT !.pc = "done"]]
  /\ UNCHANGED <<store, call>>

\* except Exception: yield the error event
NsError(r) ==
  LET rr == run[r] IN
  /\ rr.pc = "ns_error"
  /\ run' = [run EXCEPT ![r] = [Emit(rr, ErrorEvent(rr.exc)) EXCEPT !.pc = "done"]]
  /\ UNCHANGED <<store, call>>

(* ------------------------------------ chat_completions.generate_openai_stream *)
\* context = await get_conversation_context(session_id); build the prompt
\* mutant: the context is read after the user message of the run was stored
OsContextAfterUser(r) ==
  LET rr == run[r]
      msg == Message("user", rr.req.message, Meta(NoError, FALSE, NoToolCount))
  IN
  /\ rr.pc = "os_context"
  /\ LET context == get_conversation_context(add_message(store, rr.session_id, msg),
                                             rr.session_id, DefaultMaxMessages)
     IN  run' = [run EXCEPT ![r] =
                   [rr EXCEPT !.pc = "os_save_user", !.context = context,
                              !.full_prompt = BuildPrompt(context, rr.req.message)]]
  /\ UNCHANGED <<store, call>>

OsContext(r) ==
  LET rr == run[r] IN
  /\ rr.pc = "os_context"
  /\ \/ \E e \in MessageErrors :
          run' = [run EXCEPT ![r] =
                    [Fault(rr, "context") EXCEPT !.pc = "os_error", !.exc = e]]
     \/ LET context == get_conversation_context(store, rr.session_id, DefaultMaxMessages)
        IN  run' = [run EXCEPT ![r] =
                      [rr EXCEPT !.pc = "os_save_user", !.context = context,
                                 !.full_prompt = BuildPrompt(context, rr.req.message)]]
  /\ UNCHANGED <<store, call>>

\* await add_message(role="user")
OsSaveUser(r) ==
  LET rr == run[r]
      msg == Message("user", rr.req.message, Meta(NoError, FALSE, NoToolCount))
  IN
  /\ rr.pc = "os_save_user"
  /\ \/ /\ \E e \in MessageErrors :
            run' = [run EXCEPT ![r] =
                      [Fault(rr, "user_write") EXCEPT !.pc = "os_error", !.exc = e]]
        /\ UNCHANGED store
     \/ /\ store' = add_message(store, rr.session_id, msg)
        /\ run' = [run EXCEPT ![r] = [Wrote(rr, msg) EXCEPT !.pc = "os_loop"]]
  /\ UNCHANGED call

\* one event of the agent loop: a text event with non-empty content is
\* yielded as a chunk and appended to full_response
\* mutant: only the deltas are forwarded, the content a text part starts with
\* is dropped
OsAgentEventDeltasOnly(r) ==
  LET rr == run[r] IN
  /\ rr.pc = "os_loop"
  /\ \E ev \in AgentEventSet :
       /\ CanFollow(rr.events, ev)
       /\ run' = [run EXCEPT ![r] =
            LET seen == [rr EXCEPT !.events = Append(@, ev)]
                content == IF ev.kind = "text_delta" THEN ev.content ELSE <<>>
            IN  IF content # <<>>
                THEN [Emit(seen, TextChunk(content)) EXCEPT
                        !.full_response = @ \o content]
                ELSE seen]
  /\ UNCHANGED <<store, call>>

\* one event of the agent loop: a text event with content is sent as a chunk
\* and appended to full_response
OsAgentEvent(r) ==
  LET rr == run[r] IN
  /\ rr.pc = "os_loop"
  /\ \E ev \in AgentEventSet :
       /\ CanFollow(rr.events, ev)
       /\ run' = [run EXCEPT ![r] =
            LET seen == [rr EXCEPT !.events = Append(@, ev)]
                content == IF IsText(ev) THEN ev.content ELSE <<>>
            IN  IF content # <<>>
                THEN [Emit(seen, TextChunk(content)) EXCEPT
                        !.full_response = @ \o content]
                ELSE seen]
  /\ UNCHANGED <<store, call>>

\* the agent loop raises
OsAgentFail(r) ==
  LET rr == run[r] IN
  /\ rr.pc = "os_loop"
  /\ \E e \in LoopErrors(rr.events) :
       run' = [run EXCEPT ![r] =
                 [Fault(rr, "agent") EXCEPT !.pc = "os_error", !.exc = e]]
  /\ UNCHANGED <<store, call>>

\* mutant: the stream goes on to its final chunk without the assistant write
OsAgentEndSkipSave(r) ==
  LET rr == run[r] IN
  /\ rr.pc = "os_loop"
  /\ CanEnd(rr.events)
  /\ run' = [run EXCEPT ![r] = [rr EXCEPT !.pc = "os_final", !.loop_done = TRUE]]
  /\ UNCHANGED <<store, call>>

\* the agent loop ends
OsAgentEnd(r) ==
  LET rr == run[r] IN
  /\ rr.pc = "os_loop"
  /\ CanEnd(rr.events)
  /\ run' = [run EXCEPT ![r] =
               [rr EXCEPT !.pc = "os_save_assistant", !.loop_done = TRUE]]
  /\ UNCHANGED <<store, call>>

\* mutant: the text of the final model response is stored
OsSaveAssistantFinalOnly(r) ==
  LET rr == run[r]
      msg == Message("assistant", ResultData(rr.events), Meta(NoError, TRUE, NoToolCount))
  IN
  /\ rr.pc = "os_save_assistant"
  /\ store' = add_message(store, rr.session_id, msg)
  /\ run' = [run EXCEPT ![r] = [Wrote(rr, msg) EXCEPT !.pc = "os_final"]]
  /\ UNCHANGED call

\* await add_message(role="assistant")
OsSaveAssistant(r) ==
  LET rr == run[r]
      msg == Message("assistant", rr.full_response, Meta(NoError, TRUE, NoToolCount))
  IN
  /\ rr.pc = "os_save_assistant"
  /\ \/ /\ \E e \in MessageErrors :
            run' = [run EXCEPT ![r] =
                      [Fault(rr, "assistant_write") EXCEPT !.pc = "os_error", !.exc = e]]
        /\ UNCHANGED store
     \/ /\ store' = add_message(store, rr.session_id, msg)
        /\ run' = [run EXCEPT ![r] = [Wrote(rr, msg) EXCEPT !.pc = "os_final"]]
  /\ UNCHANGED call

\* yield the final chunk with finish_reason "stop"
OsFinal(r) ==
  LET rr == run[r] IN
  /\ rr.pc = "os_final"
  /\ run' = [run EXCEPT ![r] = [Emit(rr, FinalChunk) EXCEPT !.pc = "os_done"]]
  /\ UNCHANGED <<store, call>>

\* mutant: the except block stores what was streamed so far as the assistant
\* message before it yields the error chunk
OsErrorSavesPartial(r) ==
  LET rr == run[r]
      msg == Message("assistant", rr.full_response, Meta(rr.exc, TRUE, NoToolCount))
  IN
  /\ rr.pc = "os_error"
  /\ store' = add_message(store, rr.session_id, msg)
  /\ \E now \in ClockReadings :
       run' = [run EXCEPT ![r] =
                 [Emit(Wrote(rr, msg), ErrorChunk(rr.exc, now)) EXCEPT !.pc = "os_done"]]
  /\ UNCHANGED call

\* except Exception: yield the error chunk
OsError(r) ==
  LET rr == run[r] IN
  /\ rr.pc = "os_error"
  /\ \E now \in ClockReadings :
       run' = [run EXCEPT ![r] =
                 [Emit(rr, ErrorChunk(rr.exc, now)) EXCEPT !.pc = "os_done"]]
  /\ UNCHANGED <<store, call>>

\* yield "data: [DONE]"
OsDone(r) ==
  LET rr == run[r] IN
  /\ rr.pc = "os_done"
  /\ run' = [run EXCEPT ![r] = [Emit(rr, DoneRecord) EXCEPT !.pc = "done"]]
  /\ UNCHANGED <<store, call>>

(* ------------------------------------------------------------ environment *)
StreamPcs ==
  {"ns_session", "ns_context", "ns_save_user", "ns_loop", "ns_save_assistant",
   "ns_end", "ns_error",
   "os_context", "os_save_user", "os_loop", "os_save_assistant", "os_final",
   "os_error", "os_done"}

\* the consumer of a stream disconnects: the generator is closed where it is
\* suspended and produces nothing more
Cancel(r) ==
  /\ run[r].pc \in StreamPcs
  /\ run' = [run EXCEPT ![r] = [@ EXCEPT !.pc = "cancelled"]]
  /\ UNCHANGED <<store, call>>

\* the response of a finished request was delivered; its slot is free again
Retire(r) ==
  /\ run[r].pc \in {"done", "cancelled"}
  /\ run' = [run EXCEPT ![r] = IdleRun]
  /\ UNCHANGED <<store, call>>

\* no other request is in progress
Alone(r) == \A q \in Runs \ {r} : run[q].pc = "idle"

Start(r) ==
  \/ StartChat(r)
  \/ StartChatStream(r)
  \/ StartChatCompletions(r)
  \/ StartExecuteAgent(r)
  \/ StartGetSessionInfo(r)

Step(r) ==
  \/ GetSession(r) \/ CreateSession(r) \/ VerifySession(r)
  \/ EaContext(r) \/ EaRun(r) \/ EaSaveUser(r) \/ EaSaveAssistant(r)
  \/ EaExceptSaveUser(r) \/ EaExceptSaveAssistant(r)
  \/ NsSession(r) \/ NsContext(r) \/ NsSaveUser(r) \/ NsAgentEvent(r)
  \/ NsAgentFail(r) \/ NsAgentEnd(r) \/ NsSaveAssistant(r) \/ NsEnd(r) \/ NsError(r)
  \/ OsContext(r) \/ OsSaveUser(r) \/ OsAgentEvent(r) \/ OsAgentFail(r)
  \/ OsAgentEnd(r) \/ OsSaveAssistant(r) \/ OsFinal(r) \/ OsError(r) \/ OsDone(r)
  \/ Cancel(r) \/ Retire(r)

\* requests are handled one after the other
Next == \E r \in Runs : (Alone(r) /\ Start(r)) \/ Step(r)

Spec == Init /\ [][Next]_vars

\* MaxRuns requests are handled concurrently: every await of a handler is a
\* point at which the steps of another request may run
ShortRun(rr) == Len(rr.events) <= MaxConcEvents

StartConc(r) == StartChat(r) \/ StartChatStream(r)

StepConc(r) ==
  \/ GetSession(r) \/ CreateSession(r)
  \/ EaContext(r) \/ (EaRun(r) /\ ShortRun(run'[r]))
  \/ EaSaveUser(r) \/ EaSaveAssistant(r)
  \/ EaExceptSaveUser(r) \/ EaExceptSaveAssistant(r)
  \/ NsSession(r) \/ NsContext(r) \/ NsSaveUser(r)
  \/ (NsAgentEvent(r) /\ ShortRun(run'[r]))
  \/ NsAgentFail(r) \/ NsAgentEnd(r) \/ NsSaveAssistant(r) \/ NsEnd(r) \/ NsError(r)
  \/ Cancel(r)

NextConc == \E r \in Runs : StartConc(r) \/ StepConc(r)

SpecConc == Init /\ [][NextConc]_vars

(* ------------------------------------------ extract_tool_calls on any trace *)
SeqsUpTo(S, n) == UNION {[1..k -> S] : k \in 0..n}
\* the ends of the n messages that a sequence of len parts is cut into
Cuts(n, len) ==
  {c \in [1..n -> 0..len] :
     /\ \A i \in 1..(n - 1) : c[i] <= c[i + 1]
     /\ IF n = 0 THEN len = 0 ELSE c[n] = len}
\* the parts of the i-th message
Slice(ps, c, i) == SubSeq(ps, (IF i = 1 THEN 0 ELSE c[i - 1]) + 1, c[i])
\* the trace of n messages that holds the parts ps cut at c; its message
\* without_parts (none when 0) has no attribute parts
TraceOf(ps, c, n, without_parts) ==
  [i \in 1..n |-> TraceMessage(i # without_parts, Slice(ps, c, i))]
\* the messages of (ps, c) that may lack the attribute parts: those that hold
\* no part; 0 stands for none
PartlessChoices(ps, c, n) == {j \in 0..n : j = 0 \/ Slice(ps, c, j) = <<>>}

\* extract_tool_calls is called with a result whose trace is any trace of at
\* most MaxTraceMessages messages and MaxTraceParts parts; the trace can be
\* read to its end, or reading it raises at the start (all_messages()) or at
\* one of its messages
InitTools ==
  /\ store = <<>>
  /\ run = [r \in Runs |-> IdleRun]
  /\ \E ps \in SeqsUpTo(PartSet, MaxTraceParts), n \in 0..MaxTraceMessages :
       \E c \in Cuts(n, Len(ps)) :
         \E k \in PartlessChoices(ps, c, n) :
           \/ call = ToolsCall("called", FALSE, n, TraceOf(ps, c, n, k), <<>>)
           \/ \E readable \in 0..(IF n = 0 THEN 0 ELSE n - 1) :
                call = ToolsCall("called", TRUE, readable, TraceOf(ps, c, n, k), <<>>)

\* the loops ran over the messages; return tools_used
ExtractToolCalls ==
  /\ call.pc = "called" /\ ~call.raises
  /\ call' = [call EXCEPT !.pc = "returned",
                          !.tools_used = ToolCallsOfMessages(call.messages)]
  /\ UNCHANGED <<store, run>>

\* mutant: the outer except returns an empty list
ExtractToolCallsExceptEmpty ==
  /\ call.pc = "called" /\ call.raises
  /\ call' = [call EXCEPT !.pc = "returned", !.tools_used = <<>>]
  /\ UNCHANGED <<store, run>>

\* result.all_messages() or the iteration raised: the outer except logs, and
\* tools_used is returned as it is
ExtractToolCallsExcept ==
  /\ call.pc = "called" /\ call.raises
  /\ call' = [call EXCEPT
                !.pc = "returned",
                !.tools_used =
                  ToolCallsOfMessages(SubSeq(call.messages, 1, call.readable))]
  /\ UNCHANGED <<store, run>>

NextTools == ExtractToolCalls \/ ExtractToolCallsExcept

SpecTools == InitTools /\ [][NextTools]_vars

(* ------------------------------------------------------- RetrievalFuser *)
\* identifiers of retrieval hits, with their lexical order
HitIds == {"A", "B", "C"}
IdRank(id) == CASE id = "A" -> 1 [] id = "B" -> 2 [] id = "C" -> 3
\* raw scores, in hundredths
VectorScores == {40, 90}
GraphScores == {80, 95}
\* 1.0 of a normalised score
Scale == 150
\* weights are given in halves: <<1, 1>> is the default 0.5/0.5
WeightUnit == 2
DefaultWeights == [vector |-> 1, graph |-> 1]
WeightChoices == {DefaultWeights, [vector |-> 2, graph |-> 0]}
\* the limits a caller asks for
LimitChoices == {1, 2, 3}
\* the normalised score an implementation gives to several hits of one
\* source that all have the same raw score (min = max)
FlatChoices == {0, Scale}

Hit(id, score) == [id |-> id, score |-> score]
SetMax(S) == CHOOSE x \in S : \A y \in S : y <= x
SetMin(S) == CHOOSE x \in S : \A y \in S : x <= y
RawScores(hits) == { hits[i].score : i \in 1..Len(hits) }
IdsOf(hits) == { hits[i].id : i \in 1..Len(hits) }

\* step 1: min-max normalisation of one source; a single hit is 1.0
Normalized(hits, score, flat) ==
  IF Len(hits) = 1 THEN Scale
  ELSE IF SetMax(RawScores(hits)) = SetMin(RawScores(hits)) THEN flat
  ELSE ((score - SetMin(RawScores(hits))) * Scale)
         \div (SetMax(RawScores(hits)) - SetMin(RawScores(hits)))
\* the normalised score of an identifier in one source: that of its best hit
NormOf(hits, id, flat) ==
  SetMax({ Normalized(hits, hits[i].score, flat) :
             i \in { j \in 1..Len(hits) : hits[j].id = id } })

\* step 2: the combined score, in units of 1 / (Scale * WeightUnit)
Combined(vector_hits, graph_hits, id, weights, flat) ==
  IF id \in IdsOf(vector_hits) /\ id \in IdsOf(graph_hits)
  THEN weights.vector * NormOf(vector_hits, id, flat)
         + weights.graph * NormOf(graph_hits, id, flat)
  ELSE IF id \in IdsOf(vector_hits)
  THEN WeightUnit * NormOf(vector_hits, id, flat)
  ELSE WeightUnit * NormOf(graph_hits, id, flat)

\* mutant: one entry per hit, an identifier of both sources twice
FusedEntriesPerSource(vector_hits, graph_hits, weights, flat) ==
  { [id |-> id, source |-> "vector",
     score |-> WeightUnit * NormOf(vector_hits, id, flat)] : id \in IdsOf(vector_hits) }
  \cup
  { [id |-> id, source |-> "graph",
     score |-> WeightUnit * NormOf(graph_hits, id, flat)] : id \in IdsOf(graph_hits) }
\* step 3: one entry per identifier; an identifier the graph returned has
\* graph provenance
FusedEntries(vector_hits, graph_hits, weights, flat) ==
  { [id |-> id,
     source |-> IF id \in IdsOf(graph_hits) THEN "graph" ELSE "vector",
     score |-> Combined(vector_hits, graph_hits, id, weights, flat)] :
    id \in IdsOf(vector_hits) \cup IdsOf(graph_hits) }

SourcePriority(source) == IF source = "graph" THEN 0 ELSE 1
\* mutant: equal scores of one source priority are left in any order
RanksBeforeNoIdTie(a, b) ==
  \/ a.score > b.score
  \/ /\ a.score = b.score
     /\ SourcePriority(a.source) <= SourcePriority(b.source)
\* step 4: a is ranked before b
RanksBefore(a, b) ==
  \/ a.score > b.score
  \/ /\ a.score = b.score
     /\ \/ SourcePriority(a.source) < SourcePriority(b.source)
        \/ /\ SourcePriority(a.source) = SourcePriority(b.source)
           /\ IdRank(a.id) < IdRank(b.id)
\* the orders of the entries that step 4 allows: an entry that is ranked
\* before all others comes first
RECURSIVE Rankings(_)
Rankings(entries) ==
  IF entries = {} THEN { <<>> }
  ELSE UNION { { <<e>> \o rest : rest \in Rankings(entries \ {e}) } :
               e \in { a \in entries :
                         \A b \in entries \ {a} : RanksBefore(a, b) } }

\* step 5
Truncate(seq, limit) == SubSeq(seq, 1, IF limit < Len(seq) THEN limit ELSE Len(seq))

\* the results the algorithm allows for one call
FusedResults(vector_hits, graph_hits, weights, flat, limit) ==
  { Truncate(seq, limit) :
      seq \in Rankings(FusedEntries(vector_hits, graph_hits, weights, flat)) }

\* a call of the fuser: its arguments and its result
FuseCall(pc, vector_hits, graph_hits, weights, flat, limit, result) ==
  [pc |-> pc, vector_hits |-> vector_hits, graph_hits |-> graph_hits,
   weights |-> weights, flat |-> flat, limit |-> limit, result |-> result]

VectorHits == { Hit(id, sc) : id \in HitIds, sc \in VectorScores }
GraphHits == { Hit(id, sc) : id \in HitIds, sc \in GraphScores }

InitFuse ==
  /\ store = <<>>
  /\ run = [r \in Runs |-> IdleRun]
  /\ \E v \in SeqsUpTo(VectorHits, MaxHits), g \in SeqsUpTo(GraphHits, MaxHits) :
       \E w \in WeightChoices, f \in FlatChoices, l \in LimitChoices :
         call = FuseCall("called", v, g, w, f, l, <<>>)

\* the fuser returns one of the results its algorithm allows
Fuse ==
  /\ call.pc = "called"
  /\ \E result \in FusedResults(call.vector_hits, call.graph_hits,
                                call.weights, call.flat, call.limit) :
       call' = [call EXCEPT !.pc = "returned", !.result = result]
  /\ UNCHANGED <<store, run>>

NextFuse == Fuse

SpecFuse == InitFuse /\ [][NextFuse]_vars

(* ------------------------------ the context and the prompt of any session *)
\* the two messages a turn stores
HistoryMessages ==
  { Message("user", <<"q">>, Meta(NoError, FALSE, NoToolCount)),
    Message("assistant", <<"a">>, Meta(NoError, FALSE, 0)) }
\* a session that holds the messages msgs, numbered by the store
RECURSIVE SessionOf(_)
SessionOf(msgs) ==
  IF msgs = <<>> THEN << <<>> >>
  ELSE add_message(SessionOf(SubSeq(msgs, 1, Len(msgs) - 1)), 1, msgs[Len(msgs)])
\* the places that read the context and build the prompt
PromptPaths == {"execute_agent", "generate_openai_stream", "generate_stream"}
\* the max_messages of a direct call of get_conversation_context
ContextLimits == {1, PromptWindow, DefaultMaxMessages}
\* a read of the context of session 1, followed on the three paths by the
\* prompt built for the new message
ContextCall(pc, path, max_messages, message, context, full_prompt) ==
  [pc |-> pc, path |-> path, max_messages |-> max_messages, message |-> message,
   context |-> context, full_prompt |-> full_prompt]

InitContext ==
  /\ run = [r \in Runs |-> IdleRun]
  /\ \E msgs \in SeqsUpTo(HistoryMessages, MaxHistory) :
       store = SessionOf(msgs)
  /\ \/ \E n \in ContextLimits :
          call = ContextCall("called", "direct", n, <<>>, <<>>, <<>>)
     \/ \E path \in PromptPaths, m \in ChatMessages :
          call = ContextCall("called", path, DefaultMaxMessages, m, <<>>, <<>>)

\* context = await get_conversation_context(session_id[, max_messages])
GetConversationContext ==
  /\ call.pc = "called"
  /\ call' = [call EXCEPT
                !.pc = IF call.path = "direct" THEN "returned" ELSE "context_read",
                !.context = get_conversation_context(store, 1, call.max_messages)]
  /\ UNCHANGED <<store, run>>

\* execute_agent: full_prompt
EaBuildPrompt ==
  /\ call.pc = "context_read" /\ call.path = "execute_agent"
  /\ call' = [call EXCEPT !.pc = "returned",
                          !.full_prompt = BuildPrompt(call.context, call.message)]
  /\ UNCHANGED <<store, run>>

\* generate_openai_stream: full_prompt
OsBuildPrompt ==
  /\ call.pc = "context_read" /\ call.path = "generate_openai_stream"
  /\ call' = [call EXCEPT !.pc = "returned",
                          !.full_prompt = BuildPrompt(call.context, call.message)]
  /\ UNCHANGED <<store, run>>

\* generate_stream: full_prompt
NsBuildPrompt ==
  /\ call.pc = "context_read" /\ call.path = "generate_stream"
  /\ call' = [call EXCEPT !.pc = "returned",
                          !.full_prompt = BuildPrompt(call.context, call.message)]
  /\ UNCHANGED <<store, run>>

NextContext == GetConversationContext \/ EaBuildPrompt \/ OsBuildPrompt \/ NsBuildPrompt

SpecContext == InitContext /\ [][NextContext]_vars

(* ================================================================ claims *)
NativeRun(r) == run[r].req.endpoint = "chat_stream" /\ run[r].resp.kind = "stream"
CompatRun(r) == run[r].req.endpoint = "chat_completions" /\ run[r].resp.kind = "stream"
NonStreamingRun(r) ==
  run[r].req.endpoint \in {"chat", "chat_completions", "execute_agent"}
    /\ ~run[r].req.stream
Finished(r) == run[r].pc = "done"

IsTerminal(ev) == ev.type \in {"end", "error"}
HasFinish(rec) ==
  rec.object = "chat.completion.chunk" /\ rec.choices[1].finish_reason # "null"
Last(seq) == seq[Len(seq)]

\* C1: in every native stream the consumer does not cancel exactly one
\* terminal event (end or error) is emitted and nothing is emitted after it,
\* whichever step of the run fails: a terminal event is always the last
\* record sent, and a finished stream ends with one.
C1_OneTerminalEvent ==
  \A r \in Runs : NativeRun(r) =>
    LET out == run[r].out IN
    /\ \A i \in 1..Len(out) : IsTerminal(out[i]) => i = Len(out)
    /\ Finished(r) => (out # <<>> /\ IsTerminal(Last(out)))

\* a native stream that sent text, then failed, and ended with the error event
C1_Witness ==
  \E r \in Runs :
    /\ NativeRun(r) /\ Finished(r)
    /\ "assistant_write" \in run[r].faults
    /\ Len(run[r].out) >= 3
    /\ Last(run[r].out).type = "error"

\* position of a native record in the order session, text, tools, terminal
Rank(ev) ==
  CASE ev.type = "session" -> 0
    [] ev.type = "text" -> 1
    [] ev.type = "tools" -> 2
    [] OTHER -> 3

\* C2: the records of a native stream are one session event first, then zero
\* or more text events, then at most one tools event, then the terminal
\* event; no text follows a tools event and nothing precedes session.
C2_NativeShape ==
  \A r \in Runs : NativeRun(r) =>
    LET out == run[r].out IN
    /\ \A i \in 1..Len(out) :
         /\ out[i].type \in {"session", "text", "tools", "end", "error"}
         /\ (out[i].type = "session") <=> (i = 1)
         /\ \A j \in 1..(i - 1) :
              /\ Rank(out[j]) <= Rank(out[i])
              /\ Rank(out[i]) >= 2 => Rank(out[j]) < Rank(out[i])
    /\ Finished(r) => (Len(out) >= 2 /\ IsTerminal(Last(out)))

\* a finished native stream with text, a tools event and the end event
C2_Witness ==
  \E r \in Runs :
    /\ NativeRun(r) /\ Finished(r)
    /\ \E i, j \in 1..Len(run[r].out) :
         /\ i < j
         /\ run[r].out[i].type = "text" /\ run[r].out[i].content # <<>>
         /\ run[r].out[j].type = "tools"
    /\ Last(run[r].out).type = "end"

\* C3: a compatibility stream that is not cancelled contains exactly one chunk
\* with a non-null finish reason, immediately followed by [DONE], which is the
\* last record; every record before [DONE] is a chat.completion.chunk with a
\* non-empty choices list; on the success path and on every failure path.
C3_FinishThenDone ==
  \A r \in Runs : CompatRun(r) =>
    LET out == run[r].out IN
    /\ \A i \in 1..Len(out) :
         /\ out[i] = DoneRecord =>
              (i = Len(out) /\ i >= 2 /\ HasFinish(out[i - 1]))
         /\ out[i] # DoneRecord =>
              (out[i].object = "chat.completion.chunk" /\ out[i].choices # <<>>)
         /\ HasFinish(out[i]) =>
              /\ i >= Len(out) - 1
              /\ i = Len(out) - 1 => out[Len(out)] = DoneRecord
    /\ Finished(r) =>
         /\ Len(out) >= 2 /\ Last(out) = DoneRecord
         /\ Cardinality({i \in 1..Len(out) : HasFinish(out[i])}) = 1

\* a finished compatibility stream that sent a text chunk and then failed
C3_Witness ==
  \E r \in Runs :
    /\ CompatRun(r) /\ Finished(r)
    /\ run[r].faults # {}
    /\ Len(run[r].out) >= 3
    /\ Last(run[r].out) = DoneRecord

\* the run appended exactly the turn (user message, then `answer` as the
\* assistant message) to its session, and the session ends with that turn
TurnPersisted(r, answer) ==
  LET w == run[r].writes
      sid == run[r].session_id
  IN  /\ Len(w) = 2
      /\ w[1].session_id = sid /\ w[2].session_id = sid
      /\ w[1].msg.role = "user" /\ w[1].msg.content = run[r].req.message
      /\ w[2].msg.role = "assistant" /\ w[2].msg.content = answer
      /\ sid \in Sessions /\ Len(store[sid]) >= 2
      /\ store[sid][Len(store[sid]) - 1] = w[1].msg
      /\ store[sid][Len(store[sid])] = w[2].msg

EndSent(r) == \E i \in 1..Len(run[r].out) : run[r].out[i].type = "end"
FinalChunkSent(r) ==
  \E i \in 1..Len(run[r].out) :
    HasFinish(run[r].out[i]) /\ ~run[r].out[i].choices[1].delta.has_content

\* C4: every successful run with persistence enabled (execute_agent, native
\* stream, compatibility stream) appends exactly two messages to its session,
\* the user message first and the assistant message second, and both appends
\* are complete when the call returns, when the end event is emitted, or when
\* the finish-reason chunk is emitted.
C4_TwoMessagesOnSuccess ==
  \A r \in Runs :
    /\ (NonStreamingRun(r) /\ run[r].req.save_conversation /\ Finished(r)
          /\ run[r].faults = {})
         => (TurnPersisted(r, run[r].resp.content)
             /\ run[r].resp.kind \in {"chat", "chat.completion", "return"})
    /\ (NativeRun(r) /\ EndSent(r)) => TurnPersisted(r, run[r].full_response)
    /\ (CompatRun(r) /\ FinalChunkSent(r)) => TurnPersisted(r, run[r].full_response)

\* a compatibility stream that sent text and its finish chunk after a turn
\* was stored
C4_Witness ==
  \E r \in Runs :
    /\ CompatRun(r) /\ FinalChunkSent(r) /\ Finished(r)
    /\ run[r].full_response # <<>>
    /\ Len(run[r].writes) = 2

\* C5: once a stream has begun, a failure of the reasoning call or of a
\* retrieval tool never escapes as a protocol-level failure: the native
\* stream ends with one error event carrying the failure, the compatibility
\* stream with a chunk carrying the error text and a finish reason, followed
\* by [DONE].
C5_StreamFailureInBand ==
  \A r \in Runs :
    ((NativeRun(r) \/ CompatRun(r)) /\ "agent" \in run[r].faults) =>
      LET out == run[r].out IN
      /\ run[r].exc \in AgentErrors
      /\ run[r].resp.status = StatusOK
      /\ run[r].pc \in {"ns_error", "os_error", "os_done", "done", "cancelled"}
      /\ (Finished(r) /\ NativeRun(r)) =>
           /\ Last(out).type = "error"
           /\ Last(out).content = <<"Stream error: ", run[r].exc>>
           /\ Cardinality({i \in 1..Len(out) : IsTerminal(out[i])}) = 1
      /\ (Finished(r) /\ CompatRun(r)) =>
           /\ Len(out) >= 2 /\ Last(out) = DoneRecord
           /\ HasFinish(out[Len(out) - 1])
           /\ out[Len(out) - 1].choices[1].delta.content = <<"Error: ", run[r].exc>>

\* a finished native stream in which a retrieval tool failed
C5_Witness ==
  \E r \in Runs :
    /\ NativeRun(r) /\ Finished(r)
    /\ "agent" \in run[r].faults /\ run[r].exc \in ToolErrors

\* C6: when the reasoning call or a retrieval tool fails during a
\* non-streaming run with persistence enabled (and the store accepts the
\* writes), execute_agent returns an apologetic message in place of the
\* answer with an empty tool list, and the session receives the user message
\* followed by that apology as the assistant message, both tagged with error
\* metadata.
C6_ApologyPersisted ==
  \A r \in Runs :
    (NonStreamingRun(r) /\ run[r].req.save_conversation /\ Finished(r)
       /\ run[r].faults = {"agent"}) =>
      /\ run[r].exc \in AgentErrors
      /\ run[r].resp.kind \in {"chat", "chat.completion", "return"}
      /\ run[r].resp.content =
           <<"I encountered an error while processing your request: ", run[r].exc>>
      /\ run[r].resp.tools_used = <<>>
      /\ TurnPersisted(r, run[r].resp.content)
      /\ \A i \in 1..2 : run[r].writes[i].msg.metadata.error = run[r].exc

\* a /chat request whose reasoning call failed, answered with the apology
C6_Witness ==
  \E r \in Runs :
    /\ run[r].req.endpoint = "chat" /\ Finished(r)
    /\ run[r].faults = {"agent"} /\ run[r].exc \in UpstreamErrors
    /\ run[r].resp.status = StatusOK

\* C7: when the reasoning call of a non-streaming request fails with a
\* quota-style error, the response has success status and its answer text is
\* the fixed cooldown message, distinct from the generic failure apology, and
\* the conversation is persisted with two messages tagged with error metadata.
C7_QuotaCooldown ==
  \A r \in Runs :
    (run[r].req.endpoint = "chat_completions" /\ ~run[r].req.stream /\ Finished(r)
       /\ run[r].faults = {"agent"} /\ run[r].exc = "insufficient_quota") =>
      /\ run[r].resp.status = StatusOK
      /\ run[r].resp.content = CooldownMessage
      /\ Len(run[r].writes) = 2
      /\ \A i \in 1..2 : run[r].writes[i].msg.metadata.error = run[r].exc

WriteFaults == {"user_write", "assistant_write", "except_write"}

\* C8: a failing store write during a run is swallowed: the answer returned or
\* streamed is the agent's answer unchanged, no error status or error event
\* is surfaced, and the run ends normally (return value, end event, or normal
\* finish chunk).
C8_StoreFailureSwallowed ==
  \A r \in Runs :
    (Finished(r) /\ run[r].faults # {} /\ run[r].faults \subseteq WriteFaults) =>
      /\ (NonStreamingRun(r) /\ ~NativeRun(r) /\ ~CompatRun(r)) =>
           /\ run[r].resp.kind \in {"chat", "chat.completion", "return"}
           /\ run[r].resp.content = ResultData(run[r].events)
      /\ NativeRun(r) =>
           /\ Last(run[r].out).type = "end"
           /\ \A i \in 1..Len(run[r].out) : run[r].out[i].type # "error"
      /\ CompatRun(r) =>
           /\ FinalChunkSent(r)
           /\ Last(run[r].out) = DoneRecord

NoUserRole(messages) == \A i \in 1..Len(messages) : messages[i].role # "user"

\* C9: a compatibility-format request whose message list contains no
\* user-role message is rejected with a client-error (4xx) status, never
\* answered with a success status or a server-error (5xx) status.
C9_NoUserMessageClientError ==
  \A r \in Runs :
    (run[r].req.endpoint = "chat_completions" /\ NoUserRole(run[r].req.messages)
       /\ Finished(r)) =>
      run[r].resp.status \in ClientErrorStatuses

\* C10: rejecting a compatibility-format request that has no user-role
\* message leaves the store unchanged: the request is answered in the step in
\* which it arrives, with an error, no session is created or looked up, no
\* message is appended, and the agent is never invoked.
C10_RejectionLeavesStore ==
  [][\A r \in Runs :
       (run[r].pc = "idle" /\ run'[r].req.endpoint = "chat_completions"
          /\ NoUserRole(run'[r].req.messages)) =>
         /\ store' = store
         /\ run'[r].pc = "done" /\ run'[r].resp.kind = "error"
         /\ run'[r].session_id = NoSessionId
         /\ run'[r].writes = <<>> /\ run'[r].events = <<>>]_vars

\* a rejected request without a user message, while the store holds a
\* session with a message
C10_Witness ==
  \E r \in Runs :
    /\ run[r].req.endpoint = "chat_completions" /\ Finished(r)
    /\ run[r].req.messages # <<>> /\ NoUserRole(run[r].req.messages)
    /\ run[r].resp.kind = "error"
    /\ \E s \in Sessions : store[s] # <<>>

(* ---------------------------------------------------------------- sessions *)
\* the run r is a request to one of the three chat endpoints
ChatEndpointRun(r) ==
  run[r].req.endpoint \in {"chat", "chat_stream", "chat_completions"}
\* get_or_create_session returned for the run r
SessionResolved(r) == ChatEndpointRun(r) /\ run[r].session_id # NoSessionId

\* C11: get_or_create_session resolves exactly one session per request: the
\* supplied id when it resolves, and otherwise (id absent or not resolving)
\* exactly one newly created session; a supplied id that does not resolve
\* never produces an error.
C11_OneSessionResolved ==
  \A r \in Runs :
    ChatEndpointRun(r) =>
      /\ Cardinality(run[r].created) <= 1
      /\ SessionResolved(r) =>
           /\ run[r].session_id \in Sessions
           /\ IF run[r].req.session_id \in Sessions
              THEN run[r].session_id = run[r].req.session_id /\ run[r].created = {}
              ELSE run[r].created = {run[r].session_id}
      /\ ~SessionResolved(r) => run[r].created = {}
      /\ (run[r].req.session_id \in StaleSessionIds /\ run[r].faults = {}) =>
           /\ run[r].resp.kind # "error"
           /\ run[r].pc \notin {"idle", "gs_lookup", "gs_create"} => SessionResolved(r)

\* a request with an id that does not resolve was answered with status 200
\* under a session created for it, next to an older session
C11_Witness ==
  \E r \in Runs :
    /\ run[r].req.endpoint = "chat" /\ Finished(r)
    /\ run[r].req.session_id \in StaleSessionIds
    /\ run[r].resp.status = StatusOK
    /\ run[r].created = {run[r].session_id} /\ run[r].session_id > 1

SessionEventsCarry(r) ==
  \A i \in 1..Len(run[r].out) :
    (NativeRun(r) /\ run[r].out[i].type = "session") =>
      run[r].out[i].session_id = run[r].session_id

\* C12: for a request with no session id, the session id carried in the
\* response or in the session stream event is freshly created (it named no
\* session before the request), and a lookup of that id succeeds in every
\* later state: no step removes a session from the store.
C12_FreshSessionLookup ==
  /\ [](\A r \in Runs :
         (SessionResolved(r) /\ run[r].req.session_id = NoSessionId) =>
           /\ run[r].created = {run[r].session_id}
           /\ get_session_info(store, run[r].session_id).status = StatusOK
           /\ run[r].resp.kind \in {"chat", "chat.completion", "stream"} =>
                run[r].resp.session_id = run[r].session_id
           /\ SessionEventsCarry(r))
  /\ [][/\ DOMAIN store \subseteq DOMAIN store'
        /\ \A r \in Runs :
             \A id \in run'[r].created \ run[r].created :
               id \notin DOMAIN store /\ id \in DOMAIN store'
        /\ \A r \in Runs :
             (run[r].pc = "idle" /\ run'[r].req.endpoint = "get_session_info"
                /\ run'[r].req.session_id \in DOMAIN store
                /\ run'[r].faults = {}) =>
               run'[r].resp.status = StatusOK]_vars

\* a stream without session id ended after its session event carried the id
\* of a session created next to an older one, and a lookup of that id in the
\* store as it is now returns 200
C12_Witness ==
  \E r \in Runs :
    /\ NativeRun(r) /\ run[r].req.session_id = NoSessionId /\ Finished(r)
    /\ \E i \in 1..Len(run[r].out) :
         run[r].out[i].type = "session" /\ run[r].out[i].session_id \in run[r].created
    /\ run[r].session_id > 1
    /\ get_session_info(store, run[r].session_id).status = StatusOK

(* ------------------------------------------------------------- persistence *)
DirectRun(r) == run[r].req.endpoint = "execute_agent"

\* C13: with save_conversation=False execute_agent performs no store write on
\* any path, and its result depends on the context and the agent behaviour
\* alone: with or without persistence it returns the answer and the tool
\* calls of the agent run, or the apology for the failure of the context
\* read or of the agent call.
C13_StatelessSameResult ==
  \A r \in Runs :
    (DirectRun(r) /\ Finished(r)) =>
      /\ ~run[r].req.save_conversation => run[r].writes = <<>>
      /\ run[r].resp.kind = "return"
      /\ IF run[r].faults \cap {"context", "agent"} = {}
         THEN /\ run[r].resp.content = ResultData(run[r].events)
              /\ run[r].resp.tools_used = extract_tool_calls(run[r].events)
         ELSE /\ run[r].resp.content = ErrorResponseText(run[r].exc)
              /\ run[r].resp.tools_used = <<>>

\* C14: a non-streaming /v1/chat/completions request answered with status 200
\* has written no message.
C14_CompletionsWritesNothing ==
  \A r \in Runs :
    (run[r].req.endpoint = "chat_completions" /\ ~run[r].req.stream
       /\ Finished(r) /\ run[r].resp.status = StatusOK) =>
      run[r].writes = <<>>

(* ------------------------------------------------------------ streamed text *)
\* the concatenation of the contents of the text events of a native stream
RECURSIVE NativeText(_)
NativeText(out) ==
  IF out = <<>> THEN <<>>
  ELSE (IF out[1].type = "text" THEN out[1].content ELSE <<>>) \o NativeText(Tail(out))

\* the concatenation of the delta contents of the chunks of a compatibility
\* stream
RECURSIVE DeltaText(_)
DeltaText(out) ==
  IF out = <<>> THEN <<>>
  ELSE (IF out[1].object = "chat.completion.chunk"
           /\ out[1].choices[1].delta.has_content
        THEN out[1].choices[1].delta.content ELSE <<>>)
       \o DeltaText(Tail(out))

\* the delta contents of the chunks without finish reason
AnswerDeltaText(out) == DeltaText(SelectSeq(out, LAMBDA rec : ~HasFinish(rec)))

\* C15: the concatenation of all text contents streamed to the caller (native
\* text events, compatibility chunk deltas) of a stream that ended normally
\* equals the answer the non-streaming request returns for the same agent
\* behaviour, also when the agent produced text before or between tool calls.
C15_StreamEqualsAnswer ==
  \A r \in Runs :
    /\ (NativeRun(r) /\ EndSent(r)) =>
         NativeText(run[r].out) = ResultData(run[r].events)
    /\ (CompatRun(r) /\ FinalChunkSent(r)) =>
         DeltaText(run[r].out) = ResultData(run[r].events)

AssistantWrites(r) ==
  SelectSeq(run[r].writes, LAMBDA w : w.msg.role = "assistant")

\* C16 as stated: for the same agent events the native text contents and all
\* compatibility delta contents concatenate to the same text, the text of
\* the events, on success and when the run fails midway.
C16_SameTextAllDeltas ==
  \A r \in Runs :
    /\ NativeRun(r) => NativeText(run[r].out) = TextOf(run[r].events)
    /\ CompatRun(r) => DeltaText(run[r].out) = TextOf(run[r].events)

\* C16: for the same agent events the native stream and the compatibility
\* stream carry the same text: the native text contents and the delta
\* contents of the chunks without finish reason both concatenate to the text
\* of the events seen so far, on success and when the run fails midway, and
\* an assistant message, when one is persisted, holds exactly that text.
C16_SameTextBothStreams ==
  \A r \in Runs :
    /\ NativeRun(r) => NativeText(run[r].out) = TextOf(run[r].events)
    /\ CompatRun(r) => AnswerDeltaText(run[r].out) = TextOf(run[r].events)
    /\ (NativeRun(r) \/ CompatRun(r)) =>
         /\ run[r].full_response = TextOf(run[r].events)
         /\ \A i \in 1..Len(AssistantWrites(r)) :
              AssistantWrites(r)[i].msg.content = TextOf(run[r].events)
         /\ "agent" \in run[r].faults => AssistantWrites(r) = <<>>

\* a compatibility stream failed after it had sent text: its error chunk
\* carries the error text under a finish reason
C16_Witness ==
  \E r \in Runs :
    /\ CompatRun(r) /\ Finished(r) /\ "agent" \in run[r].faults
    /\ TextOf(run[r].events) # <<>>
    /\ AnswerDeltaText(run[r].out) # DeltaText(run[r].out)

(* --------------------------------------------------------------- tool calls *)
\* the parts of the messages of a trace, in message order, then part order
RECURSIVE Flatten(_)
Flatten(messages) ==
  IF messages = <<>> THEN <<>>
  ELSE (IF messages[1].has_parts THEN messages[1].parts ELSE <<>>)
       \o Flatten(Tail(messages))

IsToolCallPart(part) == part.part_kind = "ToolCallPart"
\* the arguments of the part decode to something that is not a mapping
NonMappingArgs(part) ==
  part.as_dict # "returns" /\ part.args = "json_list"
\* the arguments of the part cannot be decoded
UndecodableArgs(part) ==
  part.as_dict # "returns" /\ part.args = "json_invalid"

ToolCallParts(messages) == SelectSeq(Flatten(messages), IsToolCallPart)
RecordedParts(messages) ==
  SelectSeq(ToolCallParts(messages), LAMBDA part : ~NonMappingArgs(part))
Returned == call.pc = "returned" /\ ~call.raises

\* the k-th record stems from the part
RecordOf(rec, part) ==
  /\ rec.tool_call_id = (IF part.tool_call_id = Absent THEN "null" ELSE part.tool_call_id)
  /\ rec.tool_name = (IF part.tool_name = Absent THEN "unknown" ELSE part.tool_name)

DecodeErrorFlag(rec) ==
  IF "decode_error" \in DOMAIN rec THEN rec.decode_error ELSE FALSE

\* C18: when the arguments of a tool call of the trace cannot be decoded,
\* extract_tool_calls still returns a record for every tool call (those whose
\* arguments decode to something other than a mapping aside); the record of
\* the undecodable call has an empty argument mapping and its decode-error
\* flag set, and the other records are what they are without the failure.
C18_DecodeFailureFlagged ==
  (Returned /\ \E i \in 1..Len(RecordedParts(call.messages)) :
                 UndecodableArgs(RecordedParts(call.messages)[i])) =>
    /\ Len(call.tools_used) = Len(RecordedParts(call.messages))
    /\ \A k \in 1..Len(call.tools_used) :
         LET part == RecordedParts(call.messages)[k]
             rec == call.tools_used[k]
         IN  IF UndecodableArgs(part)
             THEN rec.args = "empty" /\ DecodeErrorFlag(rec)
             ELSE rec = ToolCallOf(part) /\ ~DecodeErrorFlag(rec)

LacksName(part) == IsToolCallPart(part) /\ part.tool_name = Absent
LacksCallId(part) == IsToolCallPart(part) /\ part.tool_call_id = Absent

StreamRun(r) == NativeRun(r) \/ CompatRun(r)
Cancelled(r) == run[r].pc = "cancelled"
\* the stream of r was cut short: the consumer left or a step failed
CutShort(r) == StreamRun(r) /\ (Cancelled(r) \/ run[r].faults # {})
\* the only write of r is its user message, the newest of its session
OnlyUserStored(r) ==
  /\ Len(run[r].writes) = 1
  /\ run[r].writes[1].msg.role = "user"
  /\ run[r].writes[1].msg.content = run[r].req.message
  /\ run[r].session_id \in Sessions
  /\ store[run[r].session_id] # <<>>
  /\ Last(store[run[r].session_id]) = run[r].writes[1].msg

\* C20: in both streaming modes the assistant message is persisted only if
\* the agent loop ran to completion.  When the consumer disconnects or the
\* run fails after the user message was stored and before the assistant
\* message was, the user message stays stored and no assistant message is
\* stored for that run in any later step; after a disconnect the run
\* produces no further record.  No step removes a stored message.
C20_AssistantOnlyAfterLoop ==
  /\ [](\A r \in Runs :
         StreamRun(r) =>
           /\ AssistantWrites(r) # <<>> => run[r].loop_done
           /\ (CutShort(r) /\ run[r].writes # <<>> /\ AssistantWrites(r) = <<>>)
                => OnlyUserStored(r))
  /\ [][/\ \A r \in Runs :
             (CutShort(r) /\ run'[r].pc # "idle") =>
               /\ run'[r].writes = run[r].writes
               /\ Cancelled(r) => run'[r] = run[r]
        /\ \A s \in DOMAIN store :
             /\ s \in DOMAIN store'
             /\ Len(store[s]) <= Len(store'[s])
             /\ SubSeq(store'[s], 1, Len(store[s])) = store[s]]_vars

\* a stream whose consumer left during the agent loop, after text was sent:
\* the user message is the only message of the run
C20_Witness ==
  \E r \in Runs :
    /\ StreamRun(r) /\ Cancelled(r) /\ ~run[r].loop_done
    /\ run[r].full_response # <<>>
    /\ OnlyUserStored(r)

(* -------------------------------------------------- C21, C22, C23: runs *)
(* handled concurrently                                                   *)
\* the runs that resolved session s
RunsOn(s) == { r \in Runs : run[r].session_id = s }
\* r is about to append a message to its session
WritePending(r) ==
  run[r].pc \in {"ea_save_user", "ea_save_assistant", "ea_except_user",
                 "ea_except_assistant", "ns_save_user", "ns_save_assistant"}
\* the step of r that appends a message
WriteStep(r) ==
  \/ EaSaveUser(r) \/ EaSaveAssistant(r)
  \/ EaExceptSaveUser(r) \/ EaExceptSaveAssistant(r)
  \/ NsSaveUser(r) \/ NsSaveAssistant(r)
\* every message r appended is stored at the sequence number it was given,
\* and r's messages are stored in the order r appended them
OwnOrderKept(r) ==
  LET w == run[r].writes IN
  /\ \A i \in 1..Len(w) :
       /\ w[i].session_id \in Sessions
       /\ w[i].msg.sequence_no \in 1..Len(store[w[i].session_id])
       /\ store[w[i].session_id][w[i].msg.sequence_no] = w[i].msg
  /\ \A i, j \in 1..Len(w) : i < j => w[i].msg.sequence_no < w[j].msg.sequence_no

\* C21: two concurrent runs against the same session are not mutually
\* excluded: a run that is about to append a message can always append it,
\* whatever the other runs on its session are doing, and the store keeps
\* only the order of each run's own messages.  The interleaving user(run 1),
\* user(run 2), assistant(run 1), assistant(run 2) is reachable, so a user
\* message is not always followed at once by its own run's assistant message.
C21_SameSessionNotExcluded ==
  \A r \in Runs :
    /\ WritePending(r) => ENABLED (WriteStep(r) /\ store' # store)
    /\ OwnOrderKept(r)

\* one session holding user(r1), user(r2), assistant(r1), assistant(r2)
C21_Witness ==
  \E s \in Sessions : \E r1, r2 \in RunsOn(s) :
    /\ r1 # r2
    /\ Len(store[s]) = 4
    /\ Len(run[r1].writes) = 2 /\ Len(run[r2].writes) = 2
    /\ store[s] = << run[r1].writes[1].msg, run[r2].writes[1].msg,
                     run[r1].writes[2].msg, run[r2].writes[2].msg >>
    /\ store[s][1].role = "user" /\ store[s][2].role = "user"
    /\ store[s][3].role = "assistant" /\ store[s][4].role = "assistant"

\* the step of r that reads the conversation context has just been taken
ContextRead(r) ==
  \/ run[r].pc = "ea_context" /\ run'[r].pc = "ea_run"
  \/ run[r].pc = "ns_context" /\ run'[r].pc = "ns_save_user"
\* every message of session s was appended by a run that resolved s
WrittenByOwnRuns(s) ==
  \A i \in 1..Len(store[s]) :
    \E r \in RunsOn(s) : \E k \in 1..Len(run[r].writes) :
      run[r].writes[k] = [session_id |-> s, msg |-> store[s][i]]

\* C22: runs for different sessions are independent under any interleaving.
\* A run appends messages only to the session it resolved and reads its
\* context only from that session; a step changes the messages of a session
\* only by the append of one run that resolved it, and leaves every other
\* run as it was.  So the messages of a session are exactly those appended
\* by the runs on it, whatever the runs on other sessions do.
C22_SessionsIndependent ==
  /\ [](/\ \A r \in Runs : \A i \in 1..Len(run[r].writes) :
             run[r].writes[i].session_id = run[r].session_id
        /\ \A s \in Sessions : WrittenByOwnRuns(s))
  /\ [][/\ \A r \in Runs :
             ContextRead(r) =>
               run'[r].context =
                 get_conversation_context(store, run[r].session_id, DefaultMaxMessages)
        /\ \A s \in Sessions :
             /\ s \in DOMAIN store'
             /\ store'[s] # store[s] =>
                  \E r \in RunsOn(s) :
                    /\ Len(run'[r].writes) = Len(run[r].writes) + 1
                    /\ store'[s] = Append(store[s], Last(run'[r].writes).msg)
                    /\ \A q \in Runs \ {r} : run'[q] = run[q]
                    /\ \A t \in Sessions \ {s} : store'[t] = store[t]]_vars

\* two runs in progress on different sessions, each with its user message
\* stored in its own session, the second having read a context that holds
\* nothing of the first session
C22_Witness ==
  \E r1, r2 \in Runs :
    /\ run[r1].session_id \in Sessions /\ run[r2].session_id \in Sessions
    /\ run[r1].session_id # run[r2].session_id
    /\ run[r1].pc = "ea_save_assistant" /\ run[r2].pc = "ns_loop"
    /\ store[run[r1].session_id] = << run[r1].writes[1].msg >>
    /\ store[run[r2].session_id] = << run[r2].writes[1].msg >>
    /\ run[r2].context = <<>>

FuseReturned == call.pc = "returned"
ResultIds == [i \in 1..Len(call.result) |-> call.result[i].id]
InputIds == IdsOf(call.vector_hits) \cup IdsOf(call.graph_hits)

\* C24: for all inputs the output of the fuser has no two entries with the
\* same identifier, is sorted by non-increasing combined score and is not
\* longer than the requested limit; every call returns, and two empty
\* inputs yield the empty result.  The output holds only identifiers of the
\* inputs, and all of them up to the limit.
C24_FusedOutputShape ==
  /\ FusedResults(call.vector_hits, call.graph_hits,
                  call.weights, call.flat, call.limit) # {}
  /\ FuseReturned =>
       /\ \A i, j \in 1..Len(call.result) :
            i # j => call.result[i].id # call.result[j].id
       /\ \A i, j \in 1..Len(call.result) :
            i < j => call.result[i].score >= call.result[j].score
       /\ Len(call.result) <= call.limit
       /\ \A i \in 1..Len(call.result) : call.result[i].id \in InputIds
       /\ Len(call.result) =
            IF Cardinality(InputIds) < call.limit THEN Cardinality(InputIds)
            ELSE call.limit
       /\ (call.vector_hits = <<>> /\ call.graph_hits = <<>>) => call.result = <<>>

\* an identifier that both sources returned, one of them twice, in a result
\* cut to the limit
C24_Witness ==
  /\ FuseReturned
  /\ \E id \in IdsOf(call.vector_hits) \cap IdsOf(call.graph_hits) :
       \E i \in 1..Len(call.result) : call.result[i].id = id
  /\ Cardinality(IdsOf(call.graph_hits)) < Len(call.graph_hits)
  /\ Len(call.result) = call.limit
  /\ call.limit < Cardinality(InputIds)

\* the call of the scenario: vector [A:0.9, B:0.4], graph [A:0.8, C:0.95]
ScenarioCall ==
  /\ call.vector_hits = << Hit("A", 90), Hit("B", 40) >>
  /\ call.graph_hits = << Hit("A", 80), Hit("C", 95) >>
  /\ call.weights = DefaultWeights
  /\ call.limit = 3

\* C25: fusing vector hits [A:0.9, B:0.4] and graph hits [A:0.8, C:0.95] with
\* weights 0.5/0.5 yields the order [C, A, B], with the score of A the
\* weighted combination of its two normalised scores (0.5 * 1.0 + 0.5 * 0.0).
\* For every input, entries of equal combined score are ordered graph before
\* vector and then by identifier, so exactly one output is possible: the
\* order is fully determined by the inputs.
C25_ScenarioAndDeterminism ==
  /\ Cardinality(FusedResults(call.vector_hits, call.graph_hits,
                              call.weights, call.flat, call.limit)) = 1
  /\ FuseReturned =>
       /\ \A i, j \in 1..Len(call.result) :
            (i < j /\ call.result[i].score = call.result[j].score) =>
              \/ call.result[i].source = "graph" /\ call.result[j].source = "vector"
              \/ /\ call.result[i].source = call.result[j].source
                 /\ IdRank(call.result[i].id) < IdRank(call.result[j].id)
       /\ ScenarioCall =>
            /\ ResultIds = <<"C", "A", "B">>
            /\ call.result[2].score =
                 call.weights.vector * Scale + call.weights.graph * 0
            /\ call.result[1].score = WeightUnit * Scale
            /\ call.result[3].score = 0

\* the scenario's call has returned
C25_Witness == FuseReturned /\ ScenarioCall /\ Len(call.result) = 3

(* ------------------------------- C26, C28, C29: the context and the prompt *)
ContextWasRead == call.pc \in {"context_read", "returned"}
PromptBuilt == call.pc = "returned" /\ call.path \in PromptPaths
Smaller(a, b) == IF a < b THEN a ELSE b
\* the lines `role: content` of msgs[i..j], joined by newlines
RECURSIVE RenderFrom(_, _, _)
RenderFrom(msgs, i, j) ==
  IF i > j THEN <<>>
  ELSE <<msgs[i].role, ": ">> \o msgs[i].content
         \o (IF i < j THEN <<"\n">> ELSE <<>>) \o RenderFrom(msgs, i + 1, j)
\* the prompt that holds the lines of msgs[i..j]
PromptOver(msgs, i, j, message) ==
  <<"Previous conversation:\n">> \o RenderFrom(msgs, i, j)
    \o <<"\n\nCurrent question: ">> \o message

\* C26: get_conversation_context(session_id, N) returns at most N {role,
\* content} pairs (N is 10 when the caller gives none), exactly the
\* projection of the most recent N stored messages of the session, oldest
\* first, and writes nothing to the store.
C26_ContextIsRecentProjection ==
  /\ [](/\ DefaultMaxMessages = 10
        /\ call.path \in PromptPaths => call.max_messages = DefaultMaxMessages
        /\ ContextWasRead =>
             LET n == Len(store[1])
                 k == Len(call.context)
             IN  /\ k <= call.max_messages
                 /\ k = Smaller(call.max_messages, n)
                 /\ \A i \in 1..k :
                      call.context[i] = [role |-> store[1][n - k + i].role,
                                         content |-> store[1][n - k + i].content])
  /\ [][store' = store]_vars

\* a session of more than ten messages read with the default: the oldest
\* message is not in the context
C26_Witness ==
  /\ ContextWasRead /\ call.max_messages = DefaultMaxMessages
  /\ Len(store[1]) = DefaultMaxMessages + 1
  /\ Len(call.context) = DefaultMaxMessages
  /\ store[1][1].role # store[1][2].role
  /\ call.context[1].role = store[1][2].role

\* C28 as stated: the prompt renders all messages of the read context
C28_PromptRendersWholeContext ==
  PromptBuilt =>
    call.full_prompt =
      IF call.context # <<>>
      THEN PromptOver(call.context, 1, Len(call.context), call.message)
      ELSE call.message

\* C28: when the read context is non-empty the working prompt is exactly
\* `Previous conversation:\n`, then the at most six most recent context
\* messages as `role: content` lines joined by newlines, then
\* `\n\nCurrent question: ` and the new message; when the context is empty
\* the prompt is the new message alone.  The non-streaming path, the native
\* stream and the compatibility stream build the same prompt from the same
\* context and message.
C28_PromptFormat ==
  PromptBuilt =>
    LET k == Len(call.context) IN
    call.full_prompt =
      IF k > 0
      THEN PromptOver(call.context, k - Smaller(PromptWindow, k) + 1, k, call.message)
      ELSE call.message

\* the compatibility stream built the prompt of a context of more than six
\* messages: six lines between the header and the label
C28_Witness ==
  /\ PromptBuilt /\ call.path = "generate_openai_stream"
  /\ Len(call.context) > PromptWindow
  /\ call.full_prompt[1] = "Previous conversation:\n"
  /\ Len(SelectSeq(call.full_prompt, LAMBDA t : t = "\n")) = PromptWindow - 1

\* C29: the working prompt of a run holds at most the six most recent of the
\* up to ten context messages fetched for the session, in their stored
\* oldest-first order; fetched messages older than those six are not in
\* the prompt.
C29_PromptWindow ==
  PromptBuilt =>
    LET n == Len(store[1])
        k == Smaller(PromptWindow, n)
    IN  /\ PromptWindow = 6
        /\ Len(call.context) <= 10
        /\ call.full_prompt =
             IF n > 0 THEN PromptOver(store[1], n - k + 1, n, call.message)
             ELSE call.message
        /\ Len(SelectSeq(call.full_prompt, LAMBDA t : t = ": ")) = k

\* ten messages were fetched and the prompt holds six lines
C29_Witness ==
  /\ PromptBuilt /\ call.path = "execute_agent"
  /\ Len(store[1]) > DefaultMaxMessages
  /\ Len(call.context) = DefaultMaxMessages
  /\ Len(SelectSeq(call.full_prompt, LAMBDA t : t = ": ")) = PromptWindow

(* ------------------------------------ C27: the timestamp of the chunks *)
\* C27: all chunks of one compatibility-format stream, the text chunks and
\* the chunk that carries the finish reason, carry the creation timestamp
\* fixed at stream start, also when the run fails after some chunks were
\* sent.
C27_ChunksCarryStartTimestamp ==
  \A r \in Runs : CompatRun(r) =>
    \A i \in 1..Len(run[r].out) :
      run[r].out[i].object = "chat.completion.chunk" =>
        run[r].out[i].created = StreamStart

(* --------------------------------- C30: the tools event of a native stream *)
ToolsRecords(r) == SelectSeq(run[r].out, LAMBDA rec : rec.type = "tools")
TextRecords(r) == SelectSeq(run[r].out, LAMBDA rec : rec.type = "text")
TextEvents(es) == SelectSeq(es, IsText)
ToolCallEvents(es) == SelectSeq(es, LAMBDA ev : ev.kind = "tool_call")

\* C30: in a native stream a tool invocation produces no text event: the
\* text events are those of the text parts.  A tools event is emitted if and
\* only if the agent loop has finished and the extracted tool-call list is
\* not empty (and the tools record could be serialised), at most once, after
\* all text events, and it lists every extracted call with its name,
\* arguments and id in invocation order.
C30_ToolsEventAfterLoop ==
  /\ [](\A r \in Runs : NativeRun(r) =>
         LET out == run[r].out
             es == run[r].events
         IN  /\ Len(TextRecords(r)) = Len(TextEvents(es))
             /\ \A i \in 1..Len(TextRecords(r)) :
                  TextRecords(r)[i].content = TextEvents(es)[i].content
             /\ Len(ToolsRecords(r)) <= 1
             /\ ToolsRecords(r) # <<>> <=>
                  (run[r].loop_done /\ extract_tool_calls(es) # <<>>)
             /\ ToolsRecords(r) # <<>> =>
                  LET tools == ToolsRecords(r)[1].tools IN
                  /\ tools = extract_tool_calls(es)
                  /\ Len(tools) = Len(ToolCallEvents(es))
                  /\ \A i \in 1..Len(tools) :
                       tools[i] = ToolCallOf(ToolCallEvents(es)[i].tool)
                  /\ \A i, j \in 1..Len(out) :
                       (out[i].type = "text" /\ out[j].type = "tools") => i < j)
  /\ [][\A r \in Runs :
          (/\ run[r].pc = "ns_loop"
           /\ Len(run'[r].events) = Len(run[r].events) + 1
           /\ Last(run'[r].events).kind = "tool_call")
            => run'[r].out = run[r].out]_vars

\* a finished native stream of a run that invoked two different tools and
\* then answered: one text event, then the tools event with both calls in
\* the order of their invocation, then end
C30_Witness ==
  \E r \in Runs :
    /\ NativeRun(r) /\ Finished(r)
    /\ Len(ToolCallEvents(run[r].events)) = 2
    /\ ToolCallEvents(run[r].events)[1].tool # ToolCallEvents(run[r].events)[2].tool
    /\ Len(TextRecords(r)) = 1
    /\ Len(ToolsRecords(r)) = 1
    /\ Len(ToolsRecords(r)[1].tools) = 2
    /\ ToolsRecords(r)[1].tools[1].tool_name =
         ToolCallEvents(run[r].events)[1].tool.tool_name
    /\ Last(run[r].out).type = "end"

(* ----------------------------------------------------- C31: token usage *)
\* a compatibility response that is not a stream
CompletionResponse(r) == run[r].resp.kind = "chat.completion"

\* C31: token usage is present only on non-streaming compatibility
\* responses, and on every one of them; it is null on every chunk of a
\* stream, the finish chunk and the error chunk included, and on the
\* responses of the other endpoints.  Where present, prompt_tokens is 50,
\* completion_tokens is the estimate from the word count of the content, and
\* total_tokens is their sum, for every word count.
C31_UsageOnlyNonStreaming ==
  /\ \A r \in Runs :
       /\ run[r].resp.usage.present <=> CompletionResponse(r)
       /\ \A i \in 1..Len(run[r].out) :
            CompatRun(r) /\ run[r].out[i].object = "chat.completion.chunk" =>
              ~run[r].out[i].usage.present
       /\ CompletionResponse(r) =>
            LET u == run[r].resp.usage IN
            /\ u.prompt_tokens = PromptTokens
            /\ u.completion_tokens = CompletionTokens(WordCount(run[r].resp.content))
            /\ u.total_tokens = u.prompt_tokens + u.completion_tokens
  /\ \A words \in 0..MaxWords :
       TotalTokens(words) = PromptTokens + CompletionTokens(words)

\* a non-streaming completion whose content has words, answered with usage
C31_Witness ==
  \E r \in Runs :
    /\ CompletionResponse(r) /\ run[r].resp.usage.present
    /\ WordCount(run[r].resp.content) > 0
    /\ run[r].resp.usage.total_tokens > PromptTokens

(* -------------------------- C32: the persisted text is the streamed text *)
\* the run stored its assistant message in its session as the newest message
AssistantStored(r) ==
  /\ Len(AssistantWrites(r)) = 1
  /\ run[r].session_id \in Sessions
  /\ store[run[r].session_id] # <<>>
  /\ Last(store[run[r].session_id]) = AssistantWrites(r)[1].msg

\* C32: in both streaming formats, when a run succeeds, the content of the
\* persisted assistant message is the in-order concatenation of all text
\* fragments sent to the caller in that stream: of the contents of the text
\* events of a native stream, of the delta contents of the chunks of a
\* compatibility stream.  At the moment it is stored, an assistant message
\* holds exactly the text sent so far.
C32_PersistedIsStreamedText ==
  \A r \in Runs :
    /\ (NativeRun(r) /\ EndSent(r)) =>
         /\ AssistantStored(r)
         /\ AssistantWrites(r)[1].msg.content = NativeText(run[r].out)
    /\ (CompatRun(r) /\ FinalChunkSent(r)) =>
         /\ AssistantStored(r)
         /\ AssistantWrites(r)[1].msg.content = DeltaText(run[r].out)
    /\ (NativeRun(r) /\ AssistantWrites(r) # <<>> /\ run[r].faults = {}) =>
         AssistantWrites(r)[1].msg.content = NativeText(run[r].out)
    /\ (CompatRun(r) /\ AssistantWrites(r) # <<>> /\ run[r].faults = {}) =>
         AssistantWrites(r)[1].msg.content = DeltaText(run[r].out)

\* a compatibility stream that sent text before and after a tool call and
\* then its final chunk: both fragments are in the stored message
C32_Witness ==
  \E r \in Runs :
    /\ CompatRun(r) /\ FinalChunkSent(r)
    /\ Len(run[r].events) = 3 /\ run[r].events[2].kind = "tool_call"
    /\ Len(SelectSeq(run[r].out, LAMBDA rec : ~HasFinish(rec))) >= 2
    /\ AssistantStored(r)
    /\ Len(AssistantWrites(r)[1].msg.content) >= 2

(* --------------------- C33: the context is read before the user message *)
\* the step that reads the context of r has just been taken, on any path
ContextReadAnyPath(r) ==
  \/ ContextRead(r)
  \/ run[r].pc = "os_context" /\ run'[r].pc = "os_save_user"
\* the agent of r is being invoked, or was
AgentInvoked(r) ==
  run[r].pc \in {"ns_loop", "os_loop"} \/ run[r].events # <<>>
     \/ "agent" \in run[r].faults

\* C33: in every mode the conversation context is read before the run's own
\* user message is written: the read happens while the run has written
\* nothing, and it yields the messages stored before; so the prompt is built
\* from a context without the message the run appends.  In the streaming
\* modes the user message is written before the agent is invoked; in the
\* non-streaming mode nothing is written until the agent call is over.
C33_ContextBeforeUserMessage ==
  /\ [](\A r \in Runs :
         /\ StreamRun(r) /\ AgentInvoked(r) =>
              /\ run[r].writes # <<>>
              /\ run[r].writes[1].msg.role = "user"
              /\ run[r].writes[1].msg.content = run[r].req.message
         /\ run[r].pc \in {"ea_context", "ea_run"} => run[r].writes = <<>>
         /\ run[r].writes # <<>> =>
              LET first == run[r].writes[1].msg.sequence_no
                  k == Len(run[r].context)
              IN  /\ k < first
                  /\ \A i \in 1..k :
                       LET m == store[run[r].session_id][first - 1 - k + i]
                       IN  run[r].context[i] = [role |-> m.role, content |-> m.content])
  /\ [][\A r \in Runs :
          ContextReadAnyPath(r) =>
            /\ run[r].writes = <<>>
            /\ run'[r].context =
                 get_conversation_context(store, run[r].session_id, DefaultMaxMessages)
            /\ run'[r].full_prompt = BuildPrompt(run'[r].context, run[r].req.message)]_vars

\* a native stream on a session that held a message: the agent is invoked
\* with a prompt that holds that message alone, and the user message of the
\* run is stored second
C33_Witness ==
  \E r \in Runs :
    /\ NativeRun(r) /\ run[r].pc = "ns_loop"
    /\ Len(run[r].context) = 1
    /\ Len(run[r].writes) = 1
    /\ run[r].writes[1].msg.sequence_no = 2
    /\ Len(store[run[r].session_id]) = 2
    /\ run[r].full_prompt = BuildPrompt(run[r].context, run[r].req.message)
    /\ run[r].full_prompt # run[r].req.message

(* ----------------- C34: a compatibility request runs in a new session *)
\* a /v1/chat/completions request that passed validation and got its session
CompletionsInSession(r) ==
  run[r].req.endpoint = "chat_completions" /\ run[r].session_id # NoSessionId
\* the context of r was read
PastContext(r) ==
  run[r].pc \in {"ea_run", "ea_save_user", "ea_save_assistant",
                 "os_save_user", "os_loop", "os_save_assistant", "os_final"}
\* text is the content of the last user-role message of messages
IsLastUserContent(messages, text) ==
  \E i \in 1..Len(messages) :
    /\ messages[i].role = "user" /\ messages[i].content = text
    /\ \A j \in (i + 1)..Len(messages) : messages[j].role # "user"

\* C34: every /v1/chat/completions request that passes validation, streaming
\* or not, runs in a session created for it and never in one that existed:
\* the session is created by the run, under an id that named no session, and
\* holds only what the run itself appended.  So the context of the run is
\* empty and its working prompt is the bare latest user-role message of the
\* request, whatever the store held and whatever the request held before
\* that message.
C34_CompletionsInNewSession ==
  /\ [](\A r \in Runs : CompletionsInSession(r) =>
         /\ run[r].created = {run[r].session_id}
         /\ run[r].session_id \in Sessions
         /\ Len(store[run[r].session_id]) = Len(run[r].writes)
         /\ run[r].context = <<>>
         /\ PastContext(r) =>
              /\ run[r].full_prompt = run[r].req.message
              /\ IsLastUserContent(run[r].req.messages, run[r].full_prompt))
  /\ [][\A r \in Runs :
          (run'[r].req.endpoint = "chat_completions"
             /\ run[r].session_id = NoSessionId /\ run'[r].session_id # NoSessionId)
            => (run'[r].session_id \notin DOMAIN store
                /\ run'[r].session_id \in DOMAIN store'
                /\ store'[run'[r].session_id] = <<>>)]_vars

\* a streamed completion of a request with two user messages, while another
\* session holds a message: the agent is invoked with the second user
\* message alone
C34_Witness ==
  \E r \in Runs :
    /\ CompletionsInSession(r) /\ run[r].req.stream /\ run[r].pc = "os_loop"
    /\ Len(UserMessages(run[r].req.messages)) = 2
    /\ run[r].full_prompt = run[r].req.messages[3].content
    /\ \E s \in Sessions \ {run[r].session_id} : store[s] # <<>>

(* ------------------------- C35: the messages one execute_agent run appends *)
UserWrites(r) == SelectSeq(run[r].writes, LAMBDA w : w.msg.role = "user")

\* C35: a single execute_agent run with persistence enabled appends at most
\* two messages to the store, one user message and one assistant message,
\* also when the agent call or one of the store writes fails partway through
\* the run.
C35_AtMostOneTurn ==
  \A r \in Runs :
    (NonStreamingRun(r) /\ run[r].req.save_conversation) =>
      /\ Len(run[r].writes) <= 2
      /\ Len(UserWrites(r)) <= 1
      /\ Len(AssistantWrites(r)) <= 1

(* ------------------------ C36: execute_agent without persistence returns *)
StatelessRun(r) == DirectRun(r) /\ ~run[r].req.save_conversation

\* C36: with save_conversation=False execute_agent never propagates an
\* exception: it always returns, and when the context read or the agent call
\* failed it returns the apology for that failure with an empty tool list.
\* No step of such a run writes to the store.
C36_StatelessNeverRaises ==
  /\ [](\A r \in Runs : StatelessRun(r) =>
         /\ run[r].writes = <<>>
         /\ run[r].faults \subseteq {"context", "agent"}
         /\ Finished(r) =>
              /\ run[r].resp.kind = "return"
              /\ run[r].faults # {} =>
                   /\ run[r].resp.content = ErrorResponseText(run[r].exc)
                   /\ run[r].resp.content =
                        <<"I encountered an error while processing your request: ",
                          run[r].exc>>
                   /\ run[r].resp.tools_used = <<>>)
  /\ [][\A r \in Runs :
          (StatelessRun(r) /\ run'[r] # run[r]) => store' = store]_vars

\* a call without persistence whose agent failed has returned the apology
C36_Witness ==
  \E r \in Runs :
    /\ StatelessRun(r) /\ Finished(r)
    /\ run[r].faults = {"agent"}
    /\ run[r].resp.kind = "return"
    /\ run[r].resp.content = ErrorResponseText(run[r].exc)

(* ------------------------------------ C37: extract_tool_calls never raises *)
\* the records recs stem, in order, from some of the parts
RECURSIVE Embeds(_, _)
Embeds(recs, parts) ==
  IF recs = <<>> THEN TRUE
  ELSE IF parts = <<>> THEN FALSE
  ELSE \/ RecordOf(recs[1], parts[1]) /\ Embeds(Tail(recs), Tail(parts))
       \/ Embeds(recs, Tail(parts))
\* the messages that were iterated
ReadMessages == SubSeq(call.messages, 1, call.readable)

\* C37: extract_tool_calls never raises: every call returns a list.  The list
\* is an order-preserving subsequence of the tool-call parts of the trace; a
\* part whose record cannot be built is skipped and the parts after it are
\* still processed; when the trace cannot be read or iterated to its end, the
\* list is the one collected from the messages read before.
C37_ExtractNeverRaises ==
  /\ call.pc = "called" => ENABLED NextTools
  /\ call.pc = "returned" =>
       /\ Embeds(call.tools_used, ToolCallParts(call.messages))
       /\ Len(call.tools_used) = Len(RecordedParts(ReadMessages))
       /\ \A k \in 1..Len(call.tools_used) :
            RecordOf(call.tools_used[k], RecordedParts(ReadMessages)[k])
       /\ ~call.raises => ReadMessages = call.messages

\* the iteration failed at the second message: the two records of the first
\* message are returned, the skipped part between them and the tool call of
\* the second message are not
C37_Witness ==
  /\ call.pc = "returned" /\ call.raises /\ call.readable = 1
  /\ Len(call.messages) = 2
  /\ call.messages[1].parts = <<GoodPart, ListJsonPart, NoIdPart>>
  /\ call.messages[2].parts = <<GoodPart>>
  /\ Len(call.tools_used) = 2
  /\ call.tools_used[2].tool_name = "list_documents"

(* ------------------------------------------- C38: session ids that are stale *)
\* the run r supplied a session id, and the lookup of that id found nothing
SuppliedUnresolved(r) ==
  /\ ChatEndpointRun(r) /\ run[r].req.session_id # NoSessionId
  /\ run[r].pc = "gs_create" \/ run[r].created # {}

\* C38: when a request supplies a session id that does not resolve, the new
\* session gets its own id, different from the supplied one, and the supplied
\* id still does not resolve afterwards; so every repetition of a request with
\* the same stale id creates one more session.
C38_StaleIdStaysStale ==
  /\ [](\A r \in Runs :
         SuppliedUnresolved(r) =>
           /\ get_session_info(store, run[r].req.session_id).status = StatusNotFound
           /\ run[r].created # {} =>
                /\ run[r].created = {run[r].session_id}
                /\ run[r].session_id # run[r].req.session_id
                /\ run[r].session_id \in Sessions
           /\ \A q \in Runs \ {r} :
                SuppliedUnresolved(q) => run[q].created \cap run[r].created = {})
  /\ [][\A r \in Runs :
          /\ (run[r].pc = "gs_lookup" /\ run[r].req.session_id \notin Sessions
                /\ run'[r].pc # "gs_lookup" /\ run'[r].faults = {}) =>
               run'[r].pc = "gs_create"
          /\ (run[r].pc = "gs_create" /\ run[r].req.session_id # NoSessionId
                /\ run'[r].created # {}) =>
               /\ Len(store') = Len(store) + 1
               /\ run'[r].created = {Len(store')}]_vars

\* two requests with the same stale id were both answered, each under a
\* session created for it, and the stale id resolves to neither
C38_Witness ==
  \E r, q \in Runs :
    /\ r # q /\ Finished(r) /\ Finished(q)
    /\ run[r].req.session_id \in StaleSessionIds
    /\ run[q].req.session_id = run[r].req.session_id
    /\ run[r].created = {1} /\ run[q].created = {2}
    /\ run[r].resp.status = StatusOK /\ run[q].resp.status = StatusOK
    /\ get_session_info(store, run[r].req.session_id).status = StatusNotFound

====
